---- MODULE Spec2Model ----
(***************************************************************************)
(* Model of the OpenAI-assistant webhook bridge:                           *)
(*   - WebhookHandler (services/webhook-handler): the pendingCalls Map,    *)
(*     sendToolCalls / sendWebhookWithRetry, processWebhookResponse;       *)
(*   - the POST /webhook-response route that wraps processWebhookResponse  *)
(*     in a retry loop and then calls submitToolOutputs / pollRunStatus;   *)
(*   - cleanupPendingCalls, the cleanup timer of server.js and the         *)
(*     POST /debug/simulate-webhook route;                                 *)
(*   - the POST /ask route: active-run check, thread, message, run, poll   *)
(*     and the branch that hands the tool calls to sendToolCalls.          *)
(* Every await of the JavaScript code is a step boundary: the code between *)
(* two awaits runs without interleaving (single-threaded event loop), so   *)
(* it is one action.                                                       *)
(***************************************************************************)
EXTENDS Integers, Sequences, FiniteSets, TLC

\* ------------------------------------------------------------------ bounds
\* longest toolCalls list handed to one sendToolCalls invocation
MaxToolCalls == 2
\* the same, where the length of the list is not what is examined
FewToolCalls == 1
\* failed external sends (axios.post) in one behaviour
MaxFailures == 5
\* the same, where delivery is not what is examined
FewFailures == 1
\* failed provider calls (submitToolOutputs, pollRunStatus, ...) in one behaviour
MaxProviderFailures == 1

\* ------------------------------------------------- WebhookHandler constants
\* clock advances one behaviour may take
MaxTicks == 3
\* clock advances of a behaviour of the whole server
FewTicks == 2
\* POST /debug/simulate-webhook requests one behaviour may take
MaxSimulations == 1
\* cleanupPendingCalls runs one behaviour may take
MaxSweeps == 2
FewSweeps == 1
\* failed provider calls in one behaviour of /ask requests
MaxAskFailures == 3
\* direct calls of processWebhookResponse one behaviour may take
MaxProbes == 1
\* sendMessage calls of the chat page one behaviour may take
MaxSends == 3

retryAttempts == 5
retryDelay == 2000
maxRetryDelay == 10000

\* ------------------------------------------------------------ input domains
Threads == {"thread_1", "thread_2"}
Runs == {"run_1", "run_2"}

\* /ask turns that reach sendToolCalls, and /webhook-response requests, each
\* numbered in order of arrival
Askers == {<<"ask", 1>>, <<"ask", 2>>}
Handlers == {<<"wr", 1>>, <<"wr", 2>>}
Callers == Askers \cup Handlers

\* config.employees: angel's webhookUrl and assistantId contain 'placeholder'.
\* sarah is an entry of the kind the file's template invites, added while its
\* webhook is not set up yet: an assistant id and no webhookUrl
employees ==
  [ brenden |-> [name |-> "AI Brenden", webhookUrl |-> "https://hook/brenden",
                 assistantId |-> "asst_brenden"],
    van     |-> [name |-> "AI Van",     webhookUrl |-> "https://hook/van",
                 assistantId |-> "asst_van"],
    angel   |-> [name |-> "AI Angel",   webhookUrl |-> "placeholder",
                 assistantId |-> "placeholder"],
    sarah   |-> [name |-> "AI Sarah",   webhookUrl |-> "",
                 assistantId |-> "asst_sarah"] ]

\* identities a request may name: two configured ones and one that is not
EmployeeIds == {"brenden", "angel", "nobody"}

\* identities an /ask request may name
AskEmployeeIds == EmployeeIds \cup {"sarah"}

\* webhookUrl.includes('placeholder')
IsPlaceholder(url) == url = "placeholder"

\* getWebhookUrlForEmployee returns (does not throw)
WebhookUrlResolves(employeeId) ==
  /\ employeeId \in DOMAIN employees
  /\ employees[employeeId].webhookUrl # ""
  /\ ~IsPlaceholder(employees[employeeId].webhookUrl)

\* config.employees[id]?.name
EmployeeName(employeeId) ==
  IF employeeId \in DOMAIN employees THEN employees[employeeId].name ELSE "undefined"

\* the tool calls the provider may request; the identifier is provider-assigned
\* and names one tool call. argsOk says whether JSON.parse(function.arguments)
\* returns: the arguments of call_3 do not parse
ToolCalls ==
  { [id |-> "call_1", argsOk |-> TRUE],
    [id |-> "call_2", argsOk |-> TRUE],
    [id |-> "call_3", argsOk |-> FALSE] }

Ids == {tc.id : tc \in ToolCalls}

\* the elements of a sequence are pairwise different
Distinct(s) == \A i, j \in 1..Len(s) : i # j => s[i] # s[j]

RECURSIVE SeqsUpTo(_, _)
SeqsUpTo(S, n) ==
  IF n = 0 THEN {<<>>}
  ELSE LET shorter == SeqsUpTo(S, n - 1)
       IN shorter \cup {Append(s, x) : s \in {q \in shorter : Len(q) = n - 1}, x \in S}

\* result.toolCalls of a run: identifiers are unique within a run
ToolCallLists == {s \in SeqsUpTo(ToolCalls, MaxToolCalls) : Distinct(s)}

\* HTTP outcomes of one axios.post: 0 stands for no response (timeout, network)
HttpStatuses == {200, 404, 503, 0}

\* ------------------------------------------------------------------- state
VARIABLES
  pendingCalls,   \* WebhookHandler.pendingCalls: Map tool_call_id -> entry
  dispatch,       \* per caller: the sendToolCalls invocation in progress
  handler,        \* per /webhook-response request: its position and locals
  sendLog,        \* history: per caller, the external sends it has made
  submitLog,      \* history: per request, the submitToolOutputs calls it has made
  used,           \* failed sends, failed provider calls so far
  limits,         \* what a behaviour may use of each; set by Init, never changed
  now,            \* Date.now(), in milliseconds since the server started
  sweeperCalls,   \* the pendingCalls Map of the WebhookHandler server.js creates
  turn,           \* per /ask request: its position and locals
  probe,          \* the last direct call of processWebhookResponse: argument and outcome
  client          \* the AICommandCenter object of the chat page, and its request in flight

\* the clock and the store of the server's own WebhookHandler instance
sweepVars == <<now, sweeperCalls>>

vars ==
  <<pendingCalls, dispatch, handler, sendLog, submitLog, used, limits, sweepVars, turn, probe,
    client>>

\* ------------------------------------------------------------- Map helpers
MapHas(m, k) == k \in DOMAIN m
\* a put that keeps the entry already stored under the key
MapSetIfAbsent(m, k, v) ==
  [x \in DOMAIN m \cup {k} |-> IF x \in DOMAIN m THEN m[x] ELSE v]
MapSet(m, k, v) == [x \in DOMAIN m \cup {k} |-> IF x = k THEN v ELSE m[x]]
MapDelete(m, k) == [x \in DOMAIN m \ {k} |-> m[x]]
\* Map.get as a set: {} when absent
MapGet(m, k) == IF k \in DOMAIN m THEN {m[k]} ELSE {}

\* data.status || 'pending'
EffectiveStatus(entry) == IF entry.status = "undefined" THEN "pending" ELSE entry.status

Min(a, b) == IF a < b THEN a ELSE b

RECURSIVE Pow2(_)
Pow2(n) == IF n = 0 THEN 1 ELSE 2 * Pow2(n - 1)

\* a delay that doubles without the cap
BackoffDelayUncapped(attempt) == retryDelay * Pow2(attempt - 1)

\* Math.min(this.retryDelay * Math.pow(2, attempt - 1), this.maxRetryDelay)
BackoffDelay(attempt) == Min(retryDelay * Pow2(attempt - 1), maxRetryDelay)

\* the send fails: axios rejects (no response, or validateStatus false for
\* status >= 500) or the code throws on response.status >= 400
DeliveryFailed(status) == status = 0 \/ status >= 500 \/ status >= 400

\* ---------------------------------------------------------- sendToolCalls
\* the object stored by this.pendingCalls.set(toolCall.id, {...}); no status
\* field is written (readers use data.status || 'pending'). insertedBy is
\* history: the invocation that stored the entry.
NewEntry(threadId, runId, employeeId, caller) ==
  [threadId |-> threadId, runId |-> runId, employeeId |-> employeeId,
   timestamp |-> now, retryCount |-> 0, status |-> "undefined",
   lastError |-> FALSE, insertedBy |-> caller]

IdleDispatch ==
  [pc |-> "idle", toolCalls |-> <<>>, threadId |-> "", runId |-> "",
   employeeId |-> "", i |-> 0, attempt |-> 0, delay |-> 0, results |-> <<>>]

\* the record sendWebhookWithRetry returns
SentResult(id, attempt) == [toolCallId |-> id, status |-> "sent", attempt |-> attempt]
\* the record the catch block of sendToolCalls pushes
ErrorResult(id) == [toolCallId |-> id, status |-> "error", attempt |-> 0]

\* one external send (axios.post) as the history records it: the entry the
\* store holds for the identifier at the moment the request is issued
SendRecord(calls, id, attempt) ==
  [id |-> id, attempt |-> attempt, stored |-> MapGet(calls, id)]

\* a loop body that issues attempt 1 before it stores the pending call
HandleToolCallSendFirst(c, st, calls, log, i) ==
  LET id == st.toolCalls[i].id
      stored == MapSet(calls, id, NewEntry(st.threadId, st.runId, st.employeeId, c))
  IN [d |-> [st EXCEPT !.pc = "sending", !.i = i, !.attempt = 1, !.delay = 0],
      calls |-> stored,
      log |-> Append(log, SendRecord(calls, id, 1))]

\* a loop body that updates the stored object in place when the identifier is
\* already in the store
HandleToolCallInPlace(c, st, calls, log, i) ==
  LET id == st.toolCalls[i].id
      stored == IF MapHas(calls, id)
                THEN [calls EXCEPT ![id] = [@ EXCEPT !.threadId = st.threadId,
                                                     !.runId = st.runId,
                                                     !.retryCount = 0]]
                ELSE MapSet(calls, id, NewEntry(st.threadId, st.runId, st.employeeId, c))
  IN [d |-> [st EXCEPT !.pc = "sending", !.i = i, !.attempt = 1, !.delay = 0],
      calls |-> stored,
      log |-> Append(log, SendRecord(stored, id, 1))]

\* a loop body that stores the pending calls of toolCalls[i] and of every call
\* after it before it issues attempt 1 for toolCalls[i]
HandleToolCallStoreRest(c, st, calls, log, i) ==
  LET rest == {st.toolCalls[j].id : j \in i..Len(st.toolCalls)}
      stored == [x \in DOMAIN calls \cup rest |->
                   IF x \in rest THEN NewEntry(st.threadId, st.runId, st.employeeId, c)
                   ELSE calls[x]]
  IN [d |-> [st EXCEPT !.pc = "sending", !.i = i, !.attempt = 1, !.delay = 0],
      calls |-> stored,
      log |-> Append(log, SendRecord(stored, st.toolCalls[i].id, 1))]

\* loop body for toolCalls[i] up to its first await: build the payload, store
\* the pending call, then issue attempt 1 of sendWebhookWithRetry
HandleToolCall(c, st, calls, log, i) ==
  LET id == st.toolCalls[i].id
      stored == MapSet(calls, id, NewEntry(st.threadId, st.runId, st.employeeId, c))
  IN [d |-> [st EXCEPT !.pc = "sending", !.i = i, !.attempt = 1, !.delay = 0],
      calls |-> stored,
      log |-> Append(log, SendRecord(stored, id, 1))]

\* the for loop of sendToolCalls from index i on, run until its next await or
\* its return: a call whose arguments JSON.parse rejects throws before the
\* store is written and gets an 'error' record from the catch block
RECURSIVE SendLoop(_, _, _, _, _)
SendLoop(c, st, calls, log, i) ==
  IF i > Len(st.toolCalls)
  THEN [d |-> [st EXCEPT !.pc = "returned", !.i = i, !.attempt = 0, !.delay = 0],
        calls |-> calls, log |-> log]
  ELSE IF ~st.toolCalls[i].argsOk
  THEN SendLoop(c, [st EXCEPT !.results = Append(@, ErrorResult(st.toolCalls[i].id))],
                calls, log, i + 1)
  ELSE HandleToolCall(c, st, calls, log, i)

\* a sendToolCalls that resolves the endpoint only when it sends: the first
\* call is stored before the configuration error is thrown
EnterSendToolCallsLate(c, toolCalls, threadId, runId, employeeId, calls, log) ==
  LET st == [IdleDispatch EXCEPT !.toolCalls = toolCalls, !.threadId = threadId,
                                 !.runId = runId, !.employeeId = employeeId]
  IN IF ~WebhookUrlResolves(employeeId)
     THEN [d |-> [st EXCEPT !.pc = "threw"],
           calls |-> IF toolCalls = <<>> THEN calls
                     ELSE MapSet(calls, toolCalls[1].id,
                                 NewEntry(threadId, runId, employeeId, c)),
           log |-> log]
     ELSE SendLoop(c, st, calls, log, 1)

\* sendToolCalls(toolCalls, threadId, runId, employeeId) from its entry to its
\* first await: getWebhookUrlForEmployee throws before anything is touched
EnterSendToolCalls(c, toolCalls, threadId, runId, employeeId, calls, log) ==
  LET st == [IdleDispatch EXCEPT !.toolCalls = toolCalls, !.threadId = threadId,
                                 !.runId = runId, !.employeeId = employeeId]
  IN IF ~WebhookUrlResolves(employeeId)
     THEN [d |-> [st EXCEPT !.pc = "threw"], calls |-> calls, log |-> log]
     ELSE SendLoop(c, st, calls, log, 1)

\* retry bookkeeping that gives the entry up at the first failed attempt
RecordRetryAsFailed(calls, id, attempt) ==
  IF MapHas(calls, id)
  THEN [calls EXCEPT ![id] = [@ EXCEPT !.retryCount = attempt, !.lastError = TRUE,
                                       !.status = "failed"]]
  ELSE calls

\* a retry bookkeeping that records the number of the attempt to come
RecordRetryNext(calls, id, attempt) ==
  IF MapHas(calls, id)
  THEN [calls EXCEPT ![id] = [@ EXCEPT !.retryCount = attempt + 1, !.lastError = TRUE]]
  ELSE calls

\* a retry bookkeeping that writes its fields with Map.set: an entry that is
\* gone comes back
RecordRetryUpsert(calls, id, attempt) ==
  IF MapHas(calls, id)
  THEN [calls EXCEPT ![id] = [@ EXCEPT !.retryCount = attempt, !.lastError = TRUE]]
  ELSE MapSet(calls, id, [NewEntry("", "", "", <<"ask", 1>>) EXCEPT
                            !.retryCount = attempt, !.lastError = TRUE])

\* catch block of sendWebhookWithRetry, attempt < maxAttempts: retry bookkeeping
\* on the entry, if the store still has one
RecordRetry(calls, id, attempt) ==
  IF MapHas(calls, id)
  THEN [calls EXCEPT ![id] = [@ EXCEPT !.retryCount = attempt, !.lastError = TRUE]]
  ELSE calls

\* a final failure that drops the entry
MarkFailedAndDelete(calls, id) ==
  IF MapHas(calls, id) THEN MapDelete(calls, id) ELSE calls

\* catch block of sendWebhookWithRetry, attempts exhausted: final-failure
\* bookkeeping on the entry, if the store still has one
MarkFailed(calls, id) ==
  IF MapHas(calls, id)
  THEN [calls EXCEPT ![id] = [@ EXCEPT !.status = "failed"]]
  ELSE calls

\* a retry test that allows one attempt more
ShouldRetryOnceMore(attempt) == attempt <= retryAttempts

\* whether a failed attempt is followed by another one
ShouldRetry(attempt) == attempt < retryAttempts

\* a continuation whose final failure escapes sendToolCalls as an exception
SettleSendThrowing(c, st, calls, log, status) ==
  LET id == st.toolCalls[st.i].id IN
  IF ~DeliveryFailed(status)
  THEN SendLoop(c, [st EXCEPT !.results = Append(@, SentResult(id, st.attempt))],
                calls, log, st.i + 1)
  ELSE IF ShouldRetry(st.attempt)
  THEN [d |-> [st EXCEPT !.pc = "backoff", !.delay = BackoffDelay(st.attempt)],
        calls |-> RecordRetry(calls, id, st.attempt), log |-> log]
  ELSE [d |-> [st EXCEPT !.pc = "threw", !.attempt = 0, !.delay = 0],
        calls |-> MarkFailed(calls, id), log |-> log]

\* a continuation whose final failure ends the whole sendToolCalls loop
SettleSendAborting(c, st, calls, log, status) ==
  LET id == st.toolCalls[st.i].id IN
  IF ~DeliveryFailed(status)
  THEN SendLoop(c, [st EXCEPT !.results = Append(@, SentResult(id, st.attempt))],
                calls, log, st.i + 1)
  ELSE IF ShouldRetry(st.attempt)
  THEN [d |-> [st EXCEPT !.pc = "backoff", !.delay = BackoffDelay(st.attempt)],
        calls |-> RecordRetry(calls, id, st.attempt), log |-> log]
  ELSE [d |-> [st EXCEPT !.pc = "returned", !.attempt = 0, !.delay = 0,
                         !.results = Append(@, ErrorResult(id))],
        calls |-> MarkFailed(calls, id), log |-> log]

\* the continuation of sendWebhookWithRetry when axios.post settles with status
SettleSend(c, st, calls, log, status) ==
  LET id == st.toolCalls[st.i].id IN
  IF ~DeliveryFailed(status)
  THEN SendLoop(c, [st EXCEPT !.results = Append(@, SentResult(id, st.attempt))],
                calls, log, st.i + 1)
  ELSE IF ShouldRetry(st.attempt)
  THEN [d |-> [st EXCEPT !.pc = "backoff", !.delay = BackoffDelay(st.attempt)],
        calls |-> RecordRetry(calls, id, st.attempt), log |-> log]
  ELSE SendLoop(c, [st EXCEPT !.results = Append(@, ErrorResult(id))],
                MarkFailed(calls, id), log, st.i + 1)

\* setTimeout(resolve, delay) fires: sendWebhookWithRetry(payload, url, attempt + 1)
ResumeAfterBackoff(c, st, calls, log) ==
  [d |-> [st EXCEPT !.pc = "sending", !.attempt = st.attempt + 1, !.delay = 0],
   calls |-> calls,
   log |-> Append(log, SendRecord(calls, st.toolCalls[st.i].id, st.attempt + 1))]

\* ----------------------------------------------------- cleanupPendingCalls
\* the two ages of cleanupPendingCalls, in milliseconds
TwoHours == 2 * 60 * 60 * 1000
OneDay == 24 * 60 * 60 * 1000

\* a sweep at time t that removes every entry older than two hours
SweptAnyStatus(entry, t) ==
  \/ entry.timestamp < t - OneDay
  \/ entry.timestamp < t - TwoHours

\* a sweep at time t that also removes an entry exactly as old as a threshold
SweptInclusive(entry, t) ==
  \/ entry.timestamp <= t - OneDay
  \/ entry.timestamp <= t - TwoHours /\ entry.status = "failed"

\* the loop body's two tests for one entry, at Date.now() = t
Swept(entry, t) ==
  \/ entry.timestamp < t - OneDay
  \/ entry.timestamp < t - TwoHours /\ entry.status = "failed"

\* the store cleanupPendingCalls() leaves, run at time t on store calls
CleanupPendingCalls(calls, t) ==
  [id \in {k \in DOMAIN calls : ~Swept(calls[k], t)} |-> calls[id]]

\* ------------------------------------------------- processWebhookResponse
\* JavaScript values of the output field: t is the typeof class, s the text
\* (the string itself; String(v) of a number or boolean; the
\* JSON.stringify(v, null, 2) text of an object), a sequence of characters
JsString(chars) == [t |-> "string", s |-> chars]
JsNull == [t |-> "null", s |-> <<>>]
JsUndefined == [t |-> "undefined", s |-> <<>>]
JsNumber(chars) == [t |-> "number", s |-> chars]
JsBoolean(chars) == [t |-> "boolean", s |-> chars]
\* an object known by its pretty-printed JSON text
JsObject(chars) == [t |-> "object", s |-> chars]

\* !value of JavaScript for an output value
JsFalsy(v) ==
  \/ v.t \in {"null", "undefined"}
  \/ v.t = "string" /\ v.s = <<>>
  \/ v.t = "number" /\ v.s \in {<<"0">>, <<"N", "a", "N">>}
  \/ v.t = "boolean" /\ v.s = <<"f", "a", "l", "s", "e">>

OutputLimit == 100000
TruncationMarker == <<"\n\n[Output truncated due to size limit]">>

RECURSIVE TrimStart(_)
TrimStart(s) == IF s # <<>> /\ Head(s) = " " THEN TrimStart(Tail(s)) ELSE s

RECURSIVE TrimEnd(_)
TrimEnd(s) ==
  IF s # <<>> /\ s[Len(s)] = " " THEN TrimEnd(SubSeq(s, 1, Len(s) - 1)) ELSE s

\* String.prototype.trim
Trim(s) == TrimEnd(TrimStart(s))

\* validateWebhookResponse (middleware): the fields whose value is falsy
MissingFields(body) ==
  {f \in {"tool_call_id", "thread_id", "run_id"} : body[f] = ""}
    \cup (IF JsFalsy(body.output) THEN {"output"} ELSE {})

\* validationErrors of processWebhookResponse, as the set of fields named
ValidationErrors(body) ==
  {f \in {"tool_call_id", "thread_id", "run_id"} : body[f] = ""}
    \cup (IF body.output.t \in {"null", "undefined"} THEN {"output"} ELSE {})

\* a plain object given by its members, <<key, value>> pairs in insertion
\* order, and an array given by its elements
JsRecord(members) == [t |-> "record", s |-> members]
JsArray(elements) == [t |-> "array", s |-> elements]

\* the indentation of nesting level n with JSON.stringify's space argument 2
Indent(n) == [k \in 1..(2 * n) |-> " "]

\* a JSON string literal; the texts of the model need no escapes
Quoted(chars) == <<"\"">> \o chars \o <<"\"">>

\* JSON.stringify(v, null, 2) at nesting level n: members and elements on
\* lines of their own, ": " after a key, "," between them; {} and [] for the
\* empty ones; an undefined member is left out, an undefined element is null
RECURSIVE Stringify(_, _)
RECURSIVE StringifyMembers(_, _, _)
RECURSIVE StringifyElements(_, _, _)
Stringify(v, n) ==
  CASE v.t = "string" -> Quoted(v.s)
    [] v.t \in {"number", "boolean", "object"} -> v.s
    [] v.t \in {"null", "undefined"} -> <<"n", "u", "l", "l">>
    [] v.t = "record" ->
         LET kept == SelectSeq(v.s, LAMBDA m : m[2].t # "undefined") IN
         IF kept = <<>> THEN <<"{", "}">>
         ELSE <<"{", "\n">> \o StringifyMembers(kept, 1, n + 1)
                \o <<"\n">> \o Indent(n) \o <<"}">>
    [] v.t = "array" ->
         IF v.s = <<>> THEN <<"[", "]">>
         ELSE <<"[", "\n">> \o StringifyElements(v.s, 1, n + 1)
                \o <<"\n">> \o Indent(n) \o <<"]">>
StringifyMembers(members, k, n) ==
  Indent(n) \o Quoted(members[k][1]) \o <<":", " ">> \o Stringify(members[k][2], n)
    \o (IF k = Len(members) THEN <<>>
        ELSE <<",", "\n">> \o StringifyMembers(members, k + 1, n))
StringifyElements(elements, k, n) ==
  Indent(n) \o Stringify(elements[k], n)
    \o (IF k = Len(elements) THEN <<>>
        ELSE <<",", "\n">> \o StringifyElements(elements, k + 1, n))

\* the text before the emptiness check: JSON.stringify(output, null, 2) for an
\* object or array, trim for a string, String(output) for a number or boolean
OutputText(output) ==
  IF output.t = "string" THEN Trim(output.s)
  ELSE IF output.t \in {"record", "array"} THEN Stringify(output, 0)
  ELSE output.s

\* a truncation that also cuts a text of exactly the limit
TruncateAtLimit(text) ==
  IF Len(text) >= OutputLimit
  THEN SubSeq(text, 1, OutputLimit) \o TruncationMarker
  ELSE text

\* substring(0, 100000) + marker when longer than the limit
Truncate(text) ==
  IF Len(text) > OutputLimit
  THEN SubSeq(text, 1, OutputLimit) \o TruncationMarker
  ELSE text

\* processedOutput is empty: 'Processed output is empty' is thrown
OutputEmpty(output) == Trim(OutputText(output)) = <<>>

NoResponse ==
  [tool_call_id |-> "", output |-> <<>>, thread_id |-> "", run_id |-> "",
   employee_id |-> "", employee_name |-> ""]

\* the processedResponse object; pendingCall is Map.get as a set
ProcessedResponse(body, pendingCall) ==
  [tool_call_id |-> body.tool_call_id,
   output |-> Truncate(OutputText(body.output)),
   thread_id |-> body.thread_id,
   run_id |-> body.run_id,
   employee_id |-> IF pendingCall = {} THEN "unknown"
                   ELSE (CHOOSE e \in pendingCall : TRUE).employeeId,
   employee_name |-> IF pendingCall = {} THEN "unknown"
                     ELSE EmployeeName((CHOOSE e \in pendingCall : TRUE).employeeId)]

Thrown(kind, calls) ==
  [ok |-> FALSE, error |-> kind, found |-> FALSE, calls |-> calls,
   response |-> NoResponse]

\* a correlation check that compares the thread only
CorrelationErrorThreadOnly(entry, body) ==
  IF entry.threadId # body.thread_id THEN "thread_mismatch" ELSE ""

\* correlation check of a found entry: "" when thread and run match
CorrelationError(entry, body) ==
  IF entry.threadId # body.thread_id THEN "thread_mismatch"
  ELSE IF entry.runId # body.run_id THEN "run_mismatch"
  ELSE ""

\* a match that marks the entry processed and leaves it in the store
MarkProcessedOnly(calls, id) ==
  [calls EXCEPT ![id] = [@ EXCEPT !.status = "processed"]]

\* on a match the entry is marked processed and deleted in the same
\* synchronous block: the store a later reader sees no longer has it
RemoveProcessed(calls, id) == MapDelete(calls, id)

\* a processWebhookResponse that drops the entry of a mismatched result
ProcessWebhookResponseDropping(calls, body) ==
  LET pendingCall == MapGet(calls, body.tool_call_id) IN
  IF ValidationErrors(body) # {} THEN Thrown("validation", calls)
  ELSE IF OutputEmpty(body.output) THEN Thrown("empty_output", calls)
  ELSE IF pendingCall = {}
  THEN [ok |-> TRUE, error |-> "", found |-> FALSE, calls |-> calls,
        response |-> ProcessedResponse(body, {})]
  ELSE LET entry == CHOOSE e \in pendingCall : TRUE IN
       IF CorrelationError(entry, body) # ""
       THEN Thrown(CorrelationError(entry, body), RemoveProcessed(calls, body.tool_call_id))
       ELSE [ok |-> TRUE, error |-> "", found |-> TRUE,
             calls |-> RemoveProcessed(calls, body.tool_call_id),
             response |-> ProcessedResponse(body, pendingCall)]

\* a processWebhookResponse that throws when the store has no entry
ProcessWebhookResponseStrict(calls, body) ==
  LET pendingCall == MapGet(calls, body.tool_call_id) IN
  IF ValidationErrors(body) # {} THEN Thrown("validation", calls)
  ELSE IF OutputEmpty(body.output) THEN Thrown("empty_output", calls)
  ELSE IF pendingCall = {} THEN Thrown("not_found", calls)
  ELSE LET entry == CHOOSE e \in pendingCall : TRUE IN
       IF CorrelationError(entry, body) # ""
       THEN Thrown(CorrelationError(entry, body), calls)
       ELSE [ok |-> TRUE, error |-> "", found |-> TRUE,
             calls |-> RemoveProcessed(calls, body.tool_call_id),
             response |-> ProcessedResponse(body, pendingCall)]

\* a processWebhookResponse that looks the entry up, and deletes a matching
\* one, before it looks at the output
ProcessWebhookResponseLookupFirst(calls, body) ==
  LET pendingCall == MapGet(calls, body.tool_call_id) IN
  IF ValidationErrors(body) # {} THEN Thrown("validation", calls)
  ELSE IF pendingCall = {}
  THEN IF OutputEmpty(body.output) THEN Thrown("empty_output", calls)
       ELSE [ok |-> TRUE, error |-> "", found |-> FALSE, calls |-> calls,
             response |-> ProcessedResponse(body, {})]
  ELSE LET entry == CHOOSE e \in pendingCall : TRUE IN
       IF CorrelationError(entry, body) # ""
       THEN Thrown(CorrelationError(entry, body), calls)
       ELSE IF OutputEmpty(body.output)
       THEN Thrown("empty_output", RemoveProcessed(calls, body.tool_call_id))
       ELSE [ok |-> TRUE, error |-> "", found |-> TRUE,
             calls |-> RemoveProcessed(calls, body.tool_call_id),
             response |-> ProcessedResponse(body, pendingCall)]

\* processWebhookResponse(responseData) on store calls: what it returns or
\* throws, and the store it leaves
ProcessWebhookResponse(calls, body) ==
  LET pendingCall == MapGet(calls, body.tool_call_id) IN
  IF ValidationErrors(body) # {} THEN Thrown("validation", calls)
  ELSE IF OutputEmpty(body.output) THEN Thrown("empty_output", calls)
  ELSE IF pendingCall = {}
  THEN [ok |-> TRUE, error |-> "", found |-> FALSE, calls |-> calls,
        response |-> ProcessedResponse(body, {})]
  ELSE LET entry == CHOOSE e \in pendingCall : TRUE IN
       IF CorrelationError(entry, body) # ""
       THEN Thrown(CorrelationError(entry, body), calls)
       ELSE [ok |-> TRUE, error |-> "", found |-> TRUE,
             calls |-> RemoveProcessed(calls, body.tool_call_id),
             response |-> ProcessedResponse(body, pendingCall)]

\* ------------------------------ processWebhookResponse on JavaScript values
\* the text of an identifier field that holds a string: the whole identifier
\* is one element of s
IdText(v) == IF v.t = "string" /\ v.s # <<>> THEN v.s[1] ELSE ""

\* !value || typeof value !== 'string'
IdOffends(v) == JsFalsy(v) \/ v.t # "string"

\* output === undefined || output === null
OutputOffends(v) == v.t \in {"undefined", "null"}

\* a validation that throws at the first offending field
RawValidationErrorsFirst(raw) ==
  IF IdOffends(raw.tool_call_id) THEN <<"tool_call_id">>
  ELSE IF OutputOffends(raw.output) THEN <<"output">>
  ELSE IF IdOffends(raw.thread_id) THEN <<"thread_id">>
  ELSE IF IdOffends(raw.run_id) THEN <<"run_id">>
  ELSE <<>>

\* validationErrors: the fields the pushed messages name, in the order pushed
RawValidationErrors(raw) ==
  (IF IdOffends(raw.tool_call_id) THEN <<"tool_call_id">> ELSE <<>>)
    \o (IF OutputOffends(raw.output) THEN <<"output">> ELSE <<>>)
    \o (IF IdOffends(raw.thread_id) THEN <<"thread_id">> ELSE <<>>)
    \o (IF IdOffends(raw.run_id) THEN <<"run_id">> ELSE <<>>)

\* a result whose identifier fields passed the validation
PlainBody(raw) ==
  [tool_call_id |-> IdText(raw.tool_call_id), output |-> raw.output,
   thread_id |-> IdText(raw.thread_id), run_id |-> IdText(raw.run_id)]

\* processWebhookResponse(responseData) for any responseData: named is the
\* list of fields the validation error names
ProcessRawResponse(calls, raw) ==
  IF RawValidationErrors(raw) # <<>>
  THEN [out |-> Thrown("validation", calls), named |-> RawValidationErrors(raw)]
  ELSE [out |-> ProcessWebhookResponse(calls, PlainBody(raw)), named |-> <<>>]

\* values an identifier field may hold: a string, the empty string, nothing, or
\* a number
RawIdValues(names) ==
  {JsString(<<n>>) : n \in names}
    \cup {JsString(<<>>), JsUndefined, JsNull, JsNumber(<<"7">>)}

\* values the output field may hold
RawOutputs ==
  {JsString(<<"o", "k">>), JsString(<<" ">>), JsUndefined, JsNull, JsNumber(<<"0">>)}

\* the responseData objects handed to processWebhookResponse
RawResults ==
  [tool_call_id : RawIdValues({"call_1", "call_2"}), output : RawOutputs,
   thread_id : RawIdValues(Threads), run_id : RawIdValues({"run_1"})]

\* a text of n characters: "x" up to the limit and "y" beyond it
LongText(n) == [i \in 1..n |-> IF i <= OutputLimit THEN "x" ELSE "y"]

\* outputs whose text is one character below, at and above the limit: strings,
\* strings with spaces around them, and an object whose JSON text is that long
LongOutputs ==
  {JsString(LongText(n)) : n \in (OutputLimit - 1)..(OutputLimit + 1)}
    \cup {JsString(<<" ">> \o LongText(n) \o <<" ">>) :
            n \in (OutputLimit - 1)..(OutputLimit + 1)}
    \cup {JsObject(LongText(OutputLimit + 1))}

\* results with a long output, for a stored and an unknown identifier
LongResults ==
  [tool_call_id : {JsString(<<"call_1">>), JsString(<<"call_2">>)},
   output : LongOutputs,
   thread_id : {JsString(<<t>>) : t \in Threads},
   run_id : {JsString(<<"run_1">>)}]

\* before the first call
NoProbe ==
  [raw |-> [tool_call_id |-> JsUndefined, output |-> JsUndefined,
            thread_id |-> JsUndefined, run_id |-> JsUndefined],
   ok |-> FALSE, error |-> "", found |-> FALSE, response |-> NoResponse,
   named |-> <<>>]

\* ------------------------------------------------ POST /webhook-response
\* initial values of the route's retry counters
ProcessRetries == 3
SubmitRetries == 5
FinalPollRetries == 3
MessageRetries == 5

\* identifiers a result may name
BodyIds == {"call_1", "call_2"}

\* request bodies: a text result for every identifier, thread and run, and for
\* one of them a whitespace-only output and a null output
Bodies ==
  [tool_call_id : BodyIds, output : {JsString(<<"o", "k">>)},
   thread_id : Threads, run_id : Runs]
    \cup [tool_call_id : {"call_1"}, output : {JsString(<<" ">>), JsNull},
          thread_id : {"thread_1"}, run_id : {"run_1"}]

\* output values of every kind, for a result that names the stored call
InboundOutputs ==
  {JsNumber(<<"0">>), JsNumber(<<"4", "2">>),
   JsBoolean(<<"f", "a", "l", "s", "e">>), JsBoolean(<<"t", "r", "u", "e">>),
   JsString(<<" ", "o", "k", " ">>), JsString(<<>>), JsString(<<" ">>), JsNull,
   JsRecord(<<>>), JsArray(<<>>),
   JsRecord(<< <<<<"a">>, JsNumber(<<"1">>)>>,
               <<<<"b">>, JsArray(<<JsString(<<"x">>), JsNull>>)>>,
               <<<<"c">>, JsUndefined>> >>)}

InboundBodies ==
  [tool_call_id : {"call_1"}, output : InboundOutputs,
   thread_id : {"thread_1"}, run_id : {"run_1"}]

NoBody == [tool_call_id |-> "", output |-> JsNull, thread_id |-> "", run_id |-> ""]

\* the locals of one request; a retry counter is 0 outside its loop. found and
\* firstError are history: whether the successful processWebhookResponse call
\* found an entry, and what the first call threw ("" when it returned)
IdleHandler ==
  [pc |-> "idle", body |-> NoBody, processRetries |-> 0, submitRetries |-> 0,
   finalPollRetries |-> 0, messageRetries |-> 0, processedResponse |-> NoResponse,
   found |-> FALSE, error |-> "", firstError |-> "", outcome |-> ""]

\* the request is answered: res.json(...), res.status(400) or next(errorResponse)
Respond(st, outcome, error) ==
  [st EXCEPT !.pc = "done", !.outcome = outcome, !.error = error,
             !.processRetries = 0, !.submitRetries = 0,
             !.finalPollRetries = 0, !.messageRetries = 0]

\* whether a failed processWebhookResponse call is tried again
ProcessAgain(processRetries) == processRetries - 1 > 0

\* one iteration of the while (processRetries > 0) loop, up to its await:
\* on success the loop is left and submitToolOutputs is called
TryProcess(st, calls) ==
  LET r == ProcessWebhookResponse(calls, st.body) IN
  IF r.ok
  THEN [h |-> [st EXCEPT !.pc = "submitting", !.processedResponse = r.response,
                         !.found = r.found, !.error = "", !.processRetries = 0,
                         !.submitRetries = SubmitRetries],
        calls |-> r.calls]
  ELSE IF ProcessAgain(st.processRetries)
  THEN [h |-> [st EXCEPT !.pc = "processWait", !.processRetries = @ - 1, !.error = r.error],
        calls |-> r.calls]
  ELSE [h |-> Respond(st, "error", r.error), calls |-> r.calls]

\* the response of the requires_action branch: JSON.parse of each tool call's
\* arguments throws into the route's catch block when one does not parse
AfterSendToolCalls(st, toolCalls) ==
  IF \E k \in 1..Len(toolCalls) : ~toolCalls[k].argsOk
  THEN Respond(st, "error", "arguments_parse")
  ELSE Respond(st, "requires_action", "")

\* what pollRunStatus may do: return a result, or throw
PollResults ==
  [status : {"completed", "failed", "thrown"}, toolCalls : {<<>>}]
    \cup [status : {"requires_action"}, toolCalls : ToolCallLists]

\* thread and run of the k-th /ask turn that reaches sendToolCalls
AskThreads == <<"thread_1", "thread_2">>
AskRuns == <<"run_1", "run_2">>
ThreadOf(c) == AskThreads[((c[2] - 1) % Len(AskThreads)) + 1]
RunOf(c) == AskRuns[((c[2] - 1) % Len(AskRuns)) + 1]

\* -------------------------------------------------------------- POST /ask
\* let threadRetries, messageRetries, runRetries, messageGetRetries = 3;
\* let pollRetries = 2; let webhookRetries = 3
AskThreadRetries == 3
AskMessageRetries == 3
AskRunRetries == 3
AskPollRetries == 2
AskMessageGetRetries == 3
AskWebhookRetries == 3

\* a run's status as the provider reports it
RunStatuses == {"queued", "in_progress", "requires_action", "completed", "failed"}

\* what client.beta.threads.runs.list(threadId, {limit: 1}) may do: throw,
\* return no run, or return the thread's latest run
NoRun == [kind |-> "none", id |-> "", status |-> ""]
Listings ==
  {NoRun, [kind |-> "thrown", id |-> "", status |-> ""]}
    \cup [kind : {"run"}, id : Runs, status : RunStatuses]

\* what openaiService.addMessage may do: return, or throw an error whose
\* message says a run is active on the thread, or throw another error
AddMessageOutcomes == {"ok", "active_run", "other"}

\* the locals of one /ask request; retries is the counter of the retry loop
\* the request is in. listed, addMessageCalls, runAssistantCalls,
\* sendToolCallsCalls, addMessageLog and polled are history: the listing the
\* busy check saw, the calls of each kind made so far, how each addMessage
\* call settled and the status pollRunStatus returned
IdleTurn ==
  [pc |-> "idle", employee |-> "", thread_id |-> "", threadId |-> "", runId |-> "",
   retries |-> 0, toolCalls |-> <<>>, listed |-> NoRun, polled |-> "",
   addMessageCalls |-> 0, runAssistantCalls |-> 0, sendToolCallsCalls |-> 0,
   addMessageLog |-> <<>>,
   status |-> 0, error |-> "", outcome |-> "", pending_tool_calls |-> 0]

\* res.status(status).json({error, ...}) or res.json(...)
Reply(st, status, error) ==
  [st EXCEPT !.pc = "responded", !.status = status, !.error = error, !.retries = 0]

\* the catch block of the route: next(errorResponse) with details error.message
Fail(st, message) == Reply(st, 500, message)

\* a route that starts the run without appending the message
BeginWithoutMessage(st) ==
  [st EXCEPT !.pc = "startingRun", !.retries = AskRunRetries,
             !.runAssistantCalls = @ + 1]

\* Step 2 begins: the first openaiService.addMessage call is made
BeginAddMessage(st) ==
  [st EXCEPT !.pc = "addingMessage", !.retries = AskMessageRetries,
             !.addMessageCalls = @ + 1]

\* a filter that compares the thread only
BusyCallsThreadOnly(calls, threadId, runId) ==
  {id \in DOMAIN calls : calls[id].threadId = threadId}

\* webhookHandler.getPendingCalls().filter(call =>
\*   call.threadId === threadId && call.runId === latestRun.id)
BusyCalls(calls, threadId, runId) ==
  {id \in DOMAIN calls : calls[id].threadId = threadId /\ calls[id].runId = runId}

\* the active-run check of Step 1, from the return of runs.list on
CheckActiveRun(st, listed, calls) ==
  LET seen == [st EXCEPT !.listed = listed]
      busy == BusyCalls(calls, st.threadId, listed.id)
  IN IF listed.kind = "run"
        /\ listed.status \in {"queued", "in_progress", "requires_action"}
     THEN IF listed.status = "requires_action"
          THEN IF Cardinality(busy) > 0
               THEN [Reply(seen, 409, "Thread busy with tool calls")
                       EXCEPT !.runId = listed.id,
                              !.pending_tool_calls = Cardinality(busy)]
               ELSE BeginAddMessage(seen)
          ELSE [Reply(seen, 409, "Thread busy") EXCEPT !.runId = listed.id]
     ELSE BeginAddMessage(seen)

\* the route from its entry to its first await
EnterAsk(employee, thread_id) ==
  LET st == [IdleTurn EXCEPT !.employee = employee, !.thread_id = thread_id] IN
  IF employee \notin DOMAIN employees
  THEN Reply(st, 404, "Employee not found")
  ELSE IF IsPlaceholder(employees[employee].assistantId)
  THEN Reply(st, 503, "Assistant not configured")
  ELSE IF thread_id # ""
  THEN [st EXCEPT !.pc = "listing", !.threadId = thread_id]
  ELSE [st EXCEPT !.pc = "creatingThread", !.retries = AskThreadRetries]

\* a retry loop whose counter is never decremented
RetryForever(st, message) == st

\* a retry loop after a failed attempt: the error is thrown when the counter
\* reaches 0, else the call is made again after the wait
RetryOrFail(st, message) ==
  IF st.retries - 1 = 0 THEN Fail(st, message)
  ELSE [st EXCEPT !.retries = @ - 1]

\* a catch block that does not look at the error's message
AddMessageFailedRetrying(st, outcome) ==
  LET r == RetryOrFail(st, "add_message_failed") IN
  IF r.pc = "responded" THEN r
  ELSE [r EXCEPT !.addMessageCalls = @ + 1]

\* the catch block of Step 2: an error saying a run is active is rethrown at
\* once with a message of the route's own
AddMessageFailed(st, outcome) ==
  IF outcome = "active_run"
  THEN Fail(st, "Cannot add message while processing")
  ELSE LET r == RetryOrFail(st, "add_message_failed") IN
       IF r.pc = "responded" THEN r
       ELSE [r EXCEPT !.addMessageCalls = @ + 1]

\* a Step 2 that starts the run whatever the addMessage call did
AfterAddMessageAnyway(st, outcome) ==
  [st EXCEPT !.pc = "startingRun", !.retries = AskRunRetries,
             !.runAssistantCalls = @ + 1]

\* Step 2, from the settling of an addMessage call on
AfterAddMessage(st, outcome) ==
  IF outcome = "ok"
  THEN [st EXCEPT !.pc = "startingRun", !.retries = AskRunRetries,
                  !.runAssistantCalls = @ + 1]
  ELSE AddMessageFailed(st, outcome)

\* tool_calls: result.toolCalls.map(tc => ({..., arguments:
\* JSON.parse(tc.function.arguments)})) throws
ArgumentsThrow(toolCalls) == \E k \in 1..Len(toolCalls) : ~toolCalls[k].argsOk

\* res.json({status: outcome, ...})
Answer(st, outcome) == [Reply(st, 200, "") EXCEPT !.outcome = outcome]

\* the response of the requires_action branch once webhookResults is set
AfterAskDispatch(st) ==
  IF ArgumentsThrow(st.toolCalls) THEN Fail(st, "arguments_parse")
  ELSE Answer(st, "requires_action")

\* the requires_action branch when the employee's webhookUrl is missing or a
\* placeholder
WebhookNotConfigured(st) ==
  IF ArgumentsThrow(st.toolCalls) THEN Fail(st, "arguments_parse")
  ELSE Reply(st, 503, "Webhook not configured")

\* ------------------------------------------------------------ error reports
\* what the external caller receives: sent is FALSE when no handler of the
\* application wrote a response; an identifier that is absent is ""
NoContext == [tool_call_id |-> "", thread_id |-> "", run_id |-> ""]
Report(statusCode, error, details, context) ==
  [sent |-> TRUE, statusCode |-> statusCode, error |-> error, details |-> details,
   context |-> context]
NotSent ==
  [sent |-> FALSE, statusCode |-> 0, error |-> "", details |-> "", context |-> NoContext]

\* errorResponse of the /webhook-response catch block, the argument of next():
\* an object with the properties error, details and context. processedResponse
\* is null unless processWebhookResponse returned
WebhookErrorResponse(st) ==
  [error |-> "Webhook response processing failed", details |-> st.error,
   context |-> [tool_call_id |-> st.processedResponse.tool_call_id,
                thread_id |-> st.processedResponse.thread_id,
                run_id |-> st.processedResponse.run_id]]

\* errorResponse of the /ask catch block, the argument of next()
AskErrorResponse(st) ==
  [error |-> "Request processing failed", details |-> st.error,
   context |-> [tool_call_id |-> "", thread_id |-> st.threadId, run_id |-> st.runId]]

\* err.message.includes('mismatch')
IncludesMismatch(message) == message \in {"thread_mismatch", "run_mismatch"}

\* errorHandler(err, req, res, next): err.message.includes(...) throws a
\* TypeError when err has no message, before any response is written; otherwise
\* the response has error, details and timestamp
ErrorHandler(err) ==
  IF "message" \notin DOMAIN err THEN NotSent
  ELSE IF IncludesMismatch(err.message)
  THEN Report(400, "Request correlation error", err.message, NoContext)
  ELSE Report(500, "Internal server error", "An unexpected error occurred", NoContext)

\* the response to a finished /webhook-response request that failed: the 400
\* of validateWebhookResponse, or what errorHandler makes of errorResponse
WebhookReport(st) ==
  IF st.outcome = "rejected"
  THEN Report(400, "Missing required fields", "Missing", NoContext)
  ELSE ErrorHandler(WebhookErrorResponse(st))

\* the response to a finished /ask request that failed: written by the route
\* with the thread and run it holds, or what errorHandler makes of errorResponse
AskReport(st) ==
  IF st.status = 500 THEN ErrorHandler(AskErrorResponse(st))
  ELSE Report(st.status, st.error, "details",
              [tool_call_id |-> "", thread_id |-> st.threadId, run_id |-> st.runId])

\* ------------------------------------------------------------- chat client
\* history.messages keeps the last 50 messages
HistoryLimit == 50

\* the keys of this.employees of the chat page
ClientEmployees == {"brenden", "van", "angel"}

\* the thread identifiers the provider hands out, in the order it creates them
ClientThreads == <<"thread_1", "thread_2">>

\* no fetch of /api/ask is awaited
NoRequest == [employee |-> "", thread_id |-> "", inFlight |-> FALSE]

\* the object after the constructor and init() with nothing in localStorage:
\* null is "". sent, owner, sends and lastOp are history: the bodies posted to
\* /api/ask, the employee each thread was created for, the number of
\* sendMessage calls and the method that ran last
InitialClient ==
  [currentEmployee |-> "brenden", currentThreadId |-> "",
   conversationHistory |-> <<>>, isWaiting |-> FALSE, request |-> NoRequest,
   sent |-> {}, owner |-> <<>>, sends |-> 0, lastOp |-> ""]

\* addMessageToHistory(content, sender, threadId) on the current employee's
\* history; messages is history.messages.length
AddMessageToHistory(cl, threadId) ==
  LET e == cl.currentEmployee
      history == IF MapHas(cl.conversationHistory, e) THEN cl.conversationHistory[e]
                 ELSE [messages |-> 0, threadId |-> ""]
      updated == [messages |-> Min(history.messages + 1, HistoryLimit),
                  threadId |-> IF threadId # "" THEN threadId ELSE history.threadId]
  IN [cl EXCEPT !.conversationHistory = MapSet(@, e, updated),
                !.currentThreadId = IF threadId # "" THEN threadId ELSE @]

\* restoreConversationForEmployee(employeeId): returns before it touches
\* currentThreadId when the employee has no history or no messages
RestoreConversationForEmployee(cl, employeeId) ==
  IF \/ ~MapHas(cl.conversationHistory, employeeId)
     \/ cl.conversationHistory[employeeId].messages = 0
  THEN cl
  ELSE [cl EXCEPT !.currentThreadId = cl.conversationHistory[employeeId].threadId]

\* switchEmployee(employeeId)
SwitchEmployeeTo(cl, employeeId) ==
  IF employeeId \notin ClientEmployees THEN cl
  ELSE RestoreConversationForEmployee([cl EXCEPT !.currentEmployee = employeeId],
                                      employeeId)

\* startNewChat()
NewChat(cl) ==
  [cl EXCEPT !.currentThreadId = "",
             !.conversationHistory = MapDelete(@, cl.currentEmployee)]

\* sendMessage(message) up to its await of fetch: the user message goes to
\* the history, and the body carries thread_id when currentThreadId is set
BeginSendMessage(cl) ==
  LET c1 == AddMessageToHistory(cl, "")
      body == [employee |-> c1.currentEmployee, thread_id |-> c1.currentThreadId]
  IN [c1 EXCEPT !.isWaiting = TRUE,
                !.request = [employee |-> body.employee, thread_id |-> body.thread_id,
                             inFlight |-> TRUE],
                !.sent = @ \cup {body},
                !.sends = @ + 1]

\* the thread of the answer to a request: the one it named, or a new one
AnswerThread(cl) ==
  IF cl.request.thread_id # "" THEN cl.request.thread_id
  ELSE ClientThreads[Cardinality(DOMAIN cl.owner) + 1]

\* sendMessage after the fetch: an answer that is ok carries data.thread_id,
\* which becomes the current thread and the thread of the history of the
\* employee that is current now; answered says whether data.status adds an
\* assistant message. A failed request shows an error message only
EndSendMessage(cl, ok, answered) ==
  LET thread == AnswerThread(cl)
      c1 == AddMessageToHistory([cl EXCEPT !.currentThreadId = thread], thread)
      c2 == IF answered THEN AddMessageToHistory(c1, "") ELSE c1
      c3 == IF ok THEN c2 ELSE cl
  IN [c3 EXCEPT !.isWaiting = FALSE, !.request = NoRequest,
                !.owner = IF ok /\ ~MapHas(@, thread)
                          THEN MapSet(@, thread, cl.request.employee) ELSE @]

\* -------------------------------------------------------------------- Init
InitState ==
  /\ pendingCalls = <<>>
  /\ dispatch = [c \in Callers |-> IdleDispatch]
  /\ handler = [h \in Handlers |-> IdleHandler]
  /\ sendLog = [c \in Callers |-> <<>>]
  /\ submitLog = [h \in Handlers |-> 0]
  /\ used = [failures |-> 0, providerFailures |-> 0, ticks |-> 0, sweeps |-> 0, timers |-> 0, simulations |-> 0, probes |-> 0]
  /\ now = 0
  /\ sweeperCalls = <<>>
  /\ turn = [a \in Askers |-> IdleTurn]
  /\ client = InitialClient
  /\ probe = NoProbe

\* correlation: one /ask turn whose sends fail at most FewFailures times, two
\* requests, a provider that works and whose resumed runs do not pause again
Init ==
  /\ InitState
  /\ limits = [toolCalls |-> FewToolCalls, failures |-> FewFailures, providerFailures |-> 0,
               dispatchers |-> {<<"ask", 1>>}, requesters |-> Handlers,
               ticks |-> 0, sweeps |-> 0, timers |-> 0, simulations |-> 0,
               turners |-> {}, probes |-> 0]

\* delivery against correlation: one /ask turn and one request, whose resumed
\* run may pause again
RaceInit ==
  /\ InitState
  /\ limits = [toolCalls |-> FewToolCalls, failures |-> MaxFailures,
               providerFailures |-> MaxProviderFailures,
               dispatchers |-> {<<"ask", 1>>, <<"wr", 1>>}, requesters |-> {<<"wr", 1>>},
               ticks |-> 0, sweeps |-> 0, timers |-> 0, simulations |-> 0,
               turners |-> {}, probes |-> 0]

\* delivery alone: one /ask turn with every list and every failed send
DeliveryInit ==
  /\ InitState
  /\ limits = [toolCalls |-> MaxToolCalls, failures |-> MaxFailures, providerFailures |-> 0,
               dispatchers |-> {<<"ask", 1>>}, requesters |-> {},
               ticks |-> 0, sweeps |-> 0, timers |-> 0, simulations |-> 0,
               turners |-> {}, probes |-> 0]

\* the sweep as a method: one /ask turn whose calls are delivered while the
\* clock advances and cleanupPendingCalls runs on the store they are in
SweepInit ==
  /\ InitState
  /\ limits = [toolCalls |-> MaxToolCalls, failures |-> MaxFailures, providerFailures |-> 0,
               dispatchers |-> {<<"ask", 1>>}, requesters |-> {},
               ticks |-> MaxTicks, sweeps |-> MaxSweeps, timers |-> 0, simulations |-> 0,
               turners |-> {}, probes |-> 0]

\* the server: one /ask turn, one /webhook-response request, the clock and the
\* cleanup timer of server.js
ServerInit ==
  /\ InitState
  /\ limits = [toolCalls |-> FewToolCalls, failures |-> FewFailures, providerFailures |-> 0,
               dispatchers |-> {<<"ask", 1>>}, requesters |-> {<<"wr", 1>>},
               ticks |-> FewTicks, sweeps |-> 0, timers |-> MaxSweeps,
               simulations |-> MaxSimulations, turners |-> {}, probes |-> 0]

\* the life of an entry: two /ask turns on different threads whose runs name
\* the same identifier, a /webhook-response request, the clock and the sweep
EntryInit ==
  /\ InitState
  /\ limits = [toolCalls |-> FewToolCalls, failures |-> FewFailures, providerFailures |-> 0,
               dispatchers |-> Askers, requesters |-> {<<"wr", 1>>},
               ticks |-> FewSweeps, sweeps |-> FewSweeps, timers |-> 0, simulations |-> 0,
               turners |-> {}, probes |-> 0]

\* the inbound interface: one /ask turn whose tool call is delivered, and one
\* /webhook-response request carrying an output of any kind
InboundInit ==
  /\ InitState
  /\ limits = [toolCalls |-> FewToolCalls, failures |-> FewFailures, providerFailures |-> 0,
               dispatchers |-> {<<"ask", 1>>, <<"wr", 1>>}, requesters |-> {<<"wr", 1>>},
               ticks |-> 0, sweeps |-> 0, timers |-> 0, simulations |-> 0,
               turners |-> {}, probes |-> 0]

\* two /ask turns on different threads whose runs name the same identifiers
TurnsInit ==
  /\ InitState
  /\ limits = [toolCalls |-> MaxToolCalls, failures |-> FewFailures, providerFailures |-> 0,
               dispatchers |-> Askers, requesters |-> {},
               ticks |-> 0, sweeps |-> 0, timers |-> 0, simulations |-> 0,
               turners |-> {}, probes |-> 0]

\* one /ask request served from its arrival to its answer, with the provider
\* failures one retry loop can spend
AskInit ==
  /\ InitState
  /\ limits = [toolCalls |-> MaxToolCalls, failures |-> FewFailures,
               providerFailures |-> MaxAskFailures,
               dispatchers |-> {}, requesters |-> {},
               ticks |-> 0, sweeps |-> 0, timers |-> 0, simulations |-> 0,
               turners |-> {<<"ask", 1>>}, probes |-> 0]

\* one request at a time, of either route, with failures enough to exhaust
\* each retry loop: an /ask turn, or a /webhook-response request that follows
\* the delivery of a tool call
TurnLimits ==
  [toolCalls |-> FewToolCalls, failures |-> MaxFailures,
   providerFailures |-> MaxAskFailures,
   dispatchers |-> {}, requesters |-> {},
   ticks |-> 0, sweeps |-> 0, timers |-> 0, simulations |-> 0,
   turners |-> {<<"ask", 1>>}, probes |-> 0]
HandlerLimits ==
  [toolCalls |-> FewToolCalls, failures |-> FewFailures,
   providerFailures |-> MaxFailures,
   dispatchers |-> {<<"ask", 1>>, <<"wr", 1>>}, requesters |-> {<<"wr", 1>>},
   ticks |-> 0, sweeps |-> 0, timers |-> 0, simulations |-> 0,
   turners |-> {}, probes |-> 0]
TerminationInit ==
  /\ InitState
  /\ limits \in {TurnLimits, HandlerLimits}

\* the chat page alone: its /api/ask requests are answered by the server
ClientInit ==
  /\ InitState
  /\ limits = [toolCalls |-> 0, failures |-> 0, providerFailures |-> 0,
               dispatchers |-> {}, requesters |-> {},
               ticks |-> 0, sweeps |-> 0, timers |-> 0, simulations |-> 0,
               turners |-> {}, probes |-> 0]

\* an /ask request that arrives while the tool calls of an earlier turn are
\* being delivered; the provider works
BusyInit ==
  /\ InitState
  /\ limits = [toolCalls |-> MaxToolCalls, failures |-> FewFailures,
               providerFailures |-> 0,
               dispatchers |-> {<<"ask", 1>>}, requesters |-> {},
               ticks |-> 0, sweeps |-> 0, timers |-> 0, simulations |-> 0,
               turners |-> {<<"ask", 2>>}, probes |-> 0]

\* processWebhookResponse as a method: one /ask turn whose tool call is
\* delivered, and calls of the method with any responseData
ProbeInit ==
  /\ InitState
  /\ limits = [toolCalls |-> FewToolCalls, failures |-> 0, providerFailures |-> 0,
               dispatchers |-> {<<"ask", 1>>}, requesters |-> {},
               ticks |-> 0, sweeps |-> 0, timers |-> 0, simulations |-> 0,
               turners |-> {}, probes |-> MaxProbes]

\* ----------------------------------------------------------------- actions
\* callers and requests are numbered in order of arrival
NextToArrive(c, started) == c[2] = 1 \/ <<c[1], c[2] - 1>> \in started

\* install the outcome r of a sendToolCalls step of caller c
DispatchStep(c, r) ==
  /\ dispatch' = [dispatch EXCEPT ![c] = r.d]
  /\ pendingCalls' = r.calls
  /\ sendLog' = [sendLog EXCEPT ![c] = r.log]

\* webhookHandler.sendToolCalls(result.toolCalls, threadId, runId, employeeId)
\* called by the /ask route
SendToolCalls(c, toolCalls, employeeId) ==
  /\ dispatch[c].pc = "idle"
  /\ c \in limits.dispatchers
  /\ NextToArrive(c, {a \in Askers : dispatch[a].pc # "idle"})
  /\ Len(toolCalls) <= limits.toolCalls
  /\ DispatchStep(c, EnterSendToolCalls(c, toolCalls, ThreadOf(c), RunOf(c), employeeId,
                                        pendingCalls, sendLog[c]))
  /\ UNCHANGED <<handler, submitLog, used, limits, client, probe, sweepVars, turn>>

\* axios.post of the current attempt settles with an HTTP status; a
\* /webhook-response request or an /ask request whose sendToolCalls call
\* returns answers
WebhookSettles(c, status) ==
  /\ dispatch[c].pc = "sending"
  /\ DeliveryFailed(status) => used.failures < limits.failures
  /\ LET r == SettleSend(c, dispatch[c], pendingCalls, sendLog[c], status) IN
       /\ DispatchStep(c, r)
       /\ handler' = IF c \in Handlers /\ r.d.pc = "returned"
                     THEN [handler EXCEPT ![c] = AfterSendToolCalls(@, r.d.toolCalls)]
                     ELSE handler
       /\ turn' = IF c \in Askers /\ turn[c].pc = "dispatching" /\ r.d.pc = "returned"
                  THEN [turn EXCEPT ![c] = AfterAskDispatch(@)]
                  ELSE turn
  /\ used' = IF DeliveryFailed(status) THEN [used EXCEPT !.failures = @ + 1] ELSE used
  /\ UNCHANGED <<submitLog, limits, client, probe, sweepVars>>

\* the backoff timer of the current attempt fires
BackoffElapses(c) ==
  /\ dispatch[c].pc = "backoff"
  /\ DispatchStep(c, ResumeAfterBackoff(c, dispatch[c], pendingCalls, sendLog[c]))
  /\ UNCHANGED <<handler, submitLog, used, limits, client, probe, sweepVars, turn>>

\* install the outcome r of a processing attempt of request h
ProcessStep(h, r) ==
  /\ handler' = [handler EXCEPT ![h] = r.h]
  /\ pendingCalls' = r.calls
  /\ submitLog' = IF r.h.pc = "submitting"
                  THEN [submitLog EXCEPT ![h] = @ + 1] ELSE submitLog

\* a POST /webhook-response request arrives: middleware, then the route up to
\* its first await
WebhookResponse(h, body) ==
  /\ handler[h].pc = "idle"
  /\ h \in limits.requesters
  /\ NextToArrive(h, {x \in Handlers : handler[x].pc # "idle"})
  /\ IF MissingFields(body) # {}
     THEN /\ handler' = [handler EXCEPT ![h] = Respond([@ EXCEPT !.body = body],
                                                        "rejected", "missing_fields")]
          /\ UNCHANGED <<pendingCalls, submitLog>>
     ELSE LET r == TryProcess([IdleHandler EXCEPT !.body = body,
                                                  !.processRetries = ProcessRetries],
                              pendingCalls)
          IN ProcessStep(h, [r EXCEPT !.h.firstError = r.h.error])
  /\ UNCHANGED <<dispatch, sendLog, used, limits, client, probe, sweepVars, turn>>

\* the 500 ms wait of the processing retry loop is over
RetryProcess(h) ==
  /\ handler[h].pc = "processWait"
  /\ ProcessStep(h, TryProcess(handler[h], pendingCalls))
  /\ UNCHANGED <<dispatch, sendLog, used, limits, client, probe, sweepVars, turn>>

\* openaiService.submitToolOutputs settles; after a failure and its 2 s wait
\* the call is made again while submitRetries > 0
SubmitSettles(h, ok) ==
  /\ handler[h].pc = "submitting"
  /\ ~ok => used.providerFailures < limits.providerFailures
  /\ IF ok
     THEN /\ handler' = [handler EXCEPT ![h] = [@ EXCEPT !.pc = "polling",
                                       !.submitRetries = 0,
                                       !.finalPollRetries = FinalPollRetries]]
          /\ UNCHANGED submitLog
     ELSE IF handler[h].submitRetries - 1 = 0
     THEN /\ handler' = [handler EXCEPT ![h] = Respond(@, "error", "submit_failed")]
          /\ UNCHANGED submitLog
     ELSE /\ handler' = [handler EXCEPT ![h] = [@ EXCEPT !.submitRetries = @ - 1]]
          /\ submitLog' = [submitLog EXCEPT ![h] = @ + 1]
  /\ used' = IF ok THEN used ELSE [used EXCEPT !.providerFailures = @ + 1]
  /\ UNCHANGED <<pendingCalls, dispatch, sendLog, limits, client, probe, sweepVars, turn>>

\* openaiService.pollRunStatus settles: the route takes the branch of the
\* result's status, or retries the poll; after the last failed poll the status
\* is 'unknown' and the answer is 'processing'
PollSettles(h, result) ==
  /\ handler[h].pc = "polling"
  /\ result.status = "thrown" => used.providerFailures < limits.providerFailures
  /\ LET pr == handler[h].processedResponse IN
     IF result.status = "thrown"
     THEN /\ handler' = [handler EXCEPT ![h] =
                 IF @.finalPollRetries - 1 = 0 THEN Respond(@, "processing", "")
                 ELSE [@ EXCEPT !.finalPollRetries = @ - 1]]
          /\ UNCHANGED <<pendingCalls, dispatch, sendLog>>
     ELSE IF result.status = "completed"
     THEN /\ handler' = [handler EXCEPT ![h] = [@ EXCEPT !.pc = "fetching",
                                        !.finalPollRetries = 0,
                                        !.messageRetries = MessageRetries]]
          /\ UNCHANGED <<pendingCalls, dispatch, sendLog>>
     ELSE IF result.status = "requires_action" /\ Len(result.toolCalls) > 0
     THEN /\ h \in limits.dispatchers
          /\ Len(result.toolCalls) <= limits.toolCalls
          /\ LET r == EnterSendToolCalls(h, result.toolCalls, pr.thread_id, pr.run_id,
                                         pr.employee_id, pendingCalls, sendLog[h]) IN
               /\ DispatchStep(h, r)
               /\ handler' = IF r.d.pc \in {"returned", "threw"}
                             THEN [handler EXCEPT ![h] = AfterSendToolCalls(@, result.toolCalls)]
                             ELSE [handler EXCEPT ![h] = [@ EXCEPT !.pc = "dispatching",
                                                          !.finalPollRetries = 0]]
     ELSE /\ handler' = [handler EXCEPT ![h] = Respond(@, result.status, "")]
          /\ UNCHANGED <<pendingCalls, dispatch, sendLog>>
  /\ used' = IF result.status = "thrown"
             THEN [used EXCEPT !.providerFailures = @ + 1] ELSE used
  /\ UNCHANGED <<submitLog, limits, client, probe, sweepVars, turn>>

\* openaiService.getLatestAssistantMessage settles; the fallback message is
\* used after the last failed retry
MessageSettles(h, ok) ==
  /\ handler[h].pc = "fetching"
  /\ ~ok => used.providerFailures < limits.providerFailures
  /\ used' = IF ok THEN used ELSE [used EXCEPT !.providerFailures = @ + 1]
  /\ handler' = [handler EXCEPT ![h] =
       IF ok \/ @.messageRetries - 1 = 0
       THEN Respond(@, "completed", "")
       ELSE [@ EXCEPT !.messageRetries = @ - 1]]
  /\ UNCHANGED <<pendingCalls, dispatch, sendLog, submitLog, limits, client, probe, sweepVars, turn>>

\* time passes between two steps of the program
TickSteps == {60 * 60 * 1000, TwoHours, 22 * 60 * 60 * 1000}

Tick(d) ==
  /\ used.ticks < limits.ticks
  /\ now' = now + d
  /\ used' = [used EXCEPT !.ticks = @ + 1]
  /\ UNCHANGED <<pendingCalls, dispatch, handler, sendLog, submitLog, limits, client, probe, sweeperCalls, turn>>

\* cleanupPendingCalls() runs on the instance whose store is pendingCalls
CleanupInvoked ==
  /\ used.sweeps < limits.sweeps
  /\ pendingCalls' = CleanupPendingCalls(pendingCalls, now)
  /\ used' = [used EXCEPT !.sweeps = @ + 1]
  /\ UNCHANGED <<dispatch, handler, sendLog, submitLog, limits, client, probe, sweepVars, turn>>

\* the setInterval callback of server.js: cleanupPendingCalls() on the
\* WebhookHandler instance server.js created
SweepTimer ==
  /\ used.timers < limits.timers
  /\ sweeperCalls' = CleanupPendingCalls(sweeperCalls, now)
  /\ used' = [used EXCEPT !.timers = @ + 1]
  /\ UNCHANGED <<pendingCalls, dispatch, handler, sendLog, submitLog, limits, client, probe, now, turn>>

\* the result POST /debug/simulate-webhook builds for a pending call
SimulatedResponse(id, entry) ==
  [tool_call_id |-> id, output |-> JsString(<<"s", "i", "m">>),
   thread_id |-> entry.threadId, run_id |-> entry.runId]

\* POST /debug/simulate-webhook up to its first await: a result is built for
\* a pending call (the first getPendingCalls() lists; any, here) and handed
\* to processWebhookResponse; the provider calls that follow leave the store
SimulateWebhook(id) ==
  /\ used.simulations < limits.simulations
  /\ MapHas(pendingCalls, id)
  /\ pendingCalls' =
       ProcessWebhookResponse(pendingCalls, SimulatedResponse(id, pendingCalls[id])).calls
  /\ used' = [used EXCEPT !.simulations = @ + 1]
  /\ UNCHANGED <<dispatch, handler, sendLog, submitLog, limits, client, probe, sweepVars, turn>>

\* a POST /ask request arrives: the route up to its first await
AskArrives(a, employee, thread_id) ==
  /\ turn[a].pc = "idle"
  /\ a \in limits.turners
  /\ NextToArrive(a, {b \in Askers : turn[b].pc # "idle" \/ b \notin limits.turners})
  /\ turn' = [turn EXCEPT ![a] = EnterAsk(employee, thread_id)]
  /\ UNCHANGED <<pendingCalls, dispatch, handler, sendLog, submitLog, used, limits, client, probe, sweepVars>>

\* install the outcome of a provider call of request a
ProviderStep(a, failed, st) ==
  /\ failed => used.providerFailures < limits.providerFailures
  /\ used' = IF failed THEN [used EXCEPT !.providerFailures = @ + 1] ELSE used
  /\ turn' = [turn EXCEPT ![a] = st]

\* client.beta.threads.runs.list settles
RunsListed(a, listed) ==
  /\ turn[a].pc = "listing"
  /\ ProviderStep(a, listed.kind = "thrown", CheckActiveRun(turn[a], listed, pendingCalls))
  /\ UNCHANGED <<pendingCalls, dispatch, handler, sendLog, submitLog, limits, client, probe, sweepVars>>

\* openaiService.createThread settles
ThreadCreated(a, ok) ==
  /\ turn[a].pc = "creatingThread"
  /\ ProviderStep(a, ~ok,
       IF ok THEN BeginAddMessage([turn[a] EXCEPT !.threadId = ThreadOf(a)])
       ELSE RetryOrFail(turn[a], "create_thread_failed"))
  /\ UNCHANGED <<pendingCalls, dispatch, handler, sendLog, submitLog, limits, client, probe, sweepVars>>

\* openaiService.addMessage settles
MessageAdded(a, outcome) ==
  /\ turn[a].pc = "addingMessage"
  /\ ProviderStep(a, outcome # "ok",
                  [AfterAddMessage(turn[a], outcome)
                     EXCEPT !.addMessageLog = Append(@, outcome)])
  /\ UNCHANGED <<pendingCalls, dispatch, handler, sendLog, submitLog, limits, client, probe, sweepVars>>

\* openaiService.runAssistant settles
RunStarted(a, ok) ==
  /\ turn[a].pc = "startingRun"
  /\ ProviderStep(a, ~ok,
       IF ok THEN [turn[a] EXCEPT !.pc = "polling", !.runId = RunOf(a),
                                  !.retries = AskPollRetries]
       ELSE LET r == RetryOrFail(turn[a], "run_failed") IN
            IF r.pc = "responded" THEN r ELSE [r EXCEPT !.runAssistantCalls = @ + 1])
  /\ UNCHANGED <<pendingCalls, dispatch, handler, sendLog, submitLog, limits, client, probe, sweepVars>>

\* openaiService.pollRunStatus settles: the route retries the poll or takes
\* the branch of the result's status. sendToolCalls can throw only the
\* configuration error the branch has already excluded; were it thrown, every
\* one of the webhookRetries calls would throw it and the error records built
\* by the route would be answered
AskPollSettles(a, result) ==
  /\ turn[a].pc = "polling"
  /\ result.status = "thrown" => used.providerFailures < limits.providerFailures
  /\ used' = IF result.status = "thrown"
             THEN [used EXCEPT !.providerFailures = @ + 1] ELSE used
  /\ LET st == [turn[a] EXCEPT !.toolCalls = result.toolCalls,
                               !.polled = result.status] IN
     IF result.status = "thrown"
     THEN /\ turn' = [turn EXCEPT ![a] = RetryOrFail(@, "poll_failed")]
          /\ UNCHANGED <<pendingCalls, dispatch, sendLog>>
     ELSE IF result.status = "completed"
     THEN /\ turn' = [turn EXCEPT ![a] = [st EXCEPT !.pc = "gettingMessage",
                                                    !.retries = AskMessageGetRetries]]
          /\ UNCHANGED <<pendingCalls, dispatch, sendLog>>
     ELSE IF result.status = "requires_action"
     THEN IF ~WebhookUrlResolves(st.employee)
          THEN /\ turn' = [turn EXCEPT ![a] = WebhookNotConfigured(st)]
               /\ UNCHANGED <<pendingCalls, dispatch, sendLog>>
          ELSE /\ Len(result.toolCalls) <= limits.toolCalls
               /\ LET r == EnterSendToolCalls(a, result.toolCalls, st.threadId, st.runId,
                                              st.employee, pendingCalls, sendLog[a])
                      called == [st EXCEPT !.sendToolCallsCalls = @ + 1]
                  IN /\ DispatchStep(a, r)
                     /\ turn' = [turn EXCEPT ![a] =
                          IF r.d.pc = "returned" THEN AfterAskDispatch(called)
                          ELSE IF r.d.pc = "threw"
                          THEN AfterAskDispatch([st EXCEPT !.sendToolCallsCalls =
                                                             AskWebhookRetries])
                          ELSE [called EXCEPT !.pc = "dispatching",
                                              !.retries = AskWebhookRetries]]
     ELSE /\ turn' = [turn EXCEPT ![a] = Fail(st, "Unexpected assistant status")]
          /\ UNCHANGED <<pendingCalls, dispatch, sendLog>>
  /\ UNCHANGED <<handler, submitLog, limits, client, probe, sweepVars>>

\* openaiService.getLatestAssistantMessage settles
MessageFetched(a, ok) ==
  /\ turn[a].pc = "gettingMessage"
  /\ ProviderStep(a, ~ok,
       IF ok THEN Answer(turn[a], "completed")
       ELSE RetryOrFail(turn[a], "get_message_failed"))
  /\ UNCHANGED <<pendingCalls, dispatch, handler, sendLog, submitLog, limits, client, probe, sweepVars>>

\* the steps of POST /ask requests and of the deliveries they start
AskNext ==
  \/ \E a \in Askers, e \in AskEmployeeIds, t \in Threads \cup {""} : AskArrives(a, e, t)
  \/ \E a \in Askers, listed \in Listings : RunsListed(a, listed)
  \/ \E a \in Askers, ok \in BOOLEAN : ThreadCreated(a, ok)
  \/ \E a \in Askers, outcome \in AddMessageOutcomes : MessageAdded(a, outcome)
  \/ \E a \in Askers, ok \in BOOLEAN : RunStarted(a, ok)
  \/ \E a \in Askers, result \in PollResults : AskPollSettles(a, result)
  \/ \E a \in Askers, ok \in BOOLEAN : MessageFetched(a, ok)
  \/ \E c \in Askers, status \in HttpStatuses : WebhookSettles(c, status)
  \/ \E c \in Askers : BackoffElapses(c)

\* everything but the chat page
serverVars ==
  <<pendingCalls, dispatch, handler, sendLog, submitLog, used, limits, sweepVars, turn, probe>>

\* a click on a team member: switchEmployee(employeeId)
SwitchEmployee(employeeId) ==
  /\ client' = [SwitchEmployeeTo(client, employeeId) EXCEPT !.lastOp = "switch"]
  /\ UNCHANGED serverVars

\* a click on the new-chat button, which is disabled while a request is awaited
StartNewChat ==
  /\ ~client.isWaiting
  /\ client' = [NewChat(client) EXCEPT !.lastOp = "newChat"]
  /\ UNCHANGED serverVars

\* the form is submitted: sendMessage runs up to its fetch
SendMessage ==
  /\ ~client.isWaiting
  /\ client.sends < MaxSends
  /\ client' = [BeginSendMessage(client) EXCEPT !.lastOp = "send"]
  /\ UNCHANGED serverVars

\* the fetch of /api/ask settles; the server answers a request without
\* thread_id with a thread it creates
AskAnswered(ok, answered) ==
  /\ client.request.inFlight
  /\ (ok /\ client.request.thread_id = "")
       => Cardinality(DOMAIN client.owner) < Len(ClientThreads)
  /\ client' = [EndSendMessage(client, ok, answered) EXCEPT !.lastOp = "answer"]
  /\ UNCHANGED serverVars

\* webhookHandler.processWebhookResponse(raw) is called on the routes' store
ProbeResponse(raw) ==
  /\ used.probes < limits.probes
  /\ LET r == ProcessRawResponse(pendingCalls, raw) IN
       /\ pendingCalls' = r.out.calls
       /\ probe' = [raw |-> raw, ok |-> r.out.ok, error |-> r.out.error,
                    found |-> r.out.found, response |-> r.out.response,
                    named |-> r.named]
  /\ used' = [used EXCEPT !.probes = @ + 1]
  /\ UNCHANGED <<dispatch, handler, sendLog, submitLog, limits, client, sweepVars, turn>>

ProbeNext ==
  \/ \E c \in Askers, tcs \in ToolCallLists, e \in EmployeeIds : SendToolCalls(c, tcs, e)
  \/ \E c \in Askers, status \in HttpStatuses : WebhookSettles(c, status)
  \/ \E raw \in RawResults : ProbeResponse(raw)

\* processWebhookResponse called with long outputs
TruncationNext ==
  \/ \E c \in Askers, tcs \in ToolCallLists, e \in EmployeeIds : SendToolCalls(c, tcs, e)
  \/ \E c \in Askers, status \in HttpStatuses : WebhookSettles(c, status)
  \/ \E raw \in LongResults : ProbeResponse(raw)

DeliveryNext ==
  \/ \E c \in Askers, tcs \in ToolCallLists, e \in EmployeeIds : SendToolCalls(c, tcs, e)
  \/ \E c \in Callers, status \in HttpStatuses : WebhookSettles(c, status)
  \/ \E c \in Callers : BackoffElapses(c)

Next ==
  \/ DeliveryNext
  \/ \E h \in Handlers, body \in Bodies : WebhookResponse(h, body)
  \/ \E h \in Handlers : RetryProcess(h)
  \/ \E h \in Handlers, ok \in BOOLEAN : SubmitSettles(h, ok)
  \/ \E h \in Handlers, result \in PollResults : PollSettles(h, result)
  \/ \E h \in Handlers, ok \in BOOLEAN : MessageSettles(h, ok)

SweepNext ==
  \/ DeliveryNext
  \/ \E d \in TickSteps : Tick(d)
  \/ CleanupInvoked

Spec == Init /\ [][Next]_vars

RaceSpec == RaceInit /\ [][Next]_vars

DeliverySpec == DeliveryInit /\ [][DeliveryNext]_vars

ServerNext ==
  \/ Next
  \/ \E id \in Ids : SimulateWebhook(id)
  \/ \E d \in TickSteps : Tick(d)
  \/ SweepTimer

ServerSpec == ServerInit /\ [][ServerNext]_vars

TurnsSpec == TurnsInit /\ [][DeliveryNext]_vars

SweepSpec == SweepInit /\ [][SweepNext]_vars

\* dispatch, retry, correlation and sweep on one store
EntryNext ==
  \/ Next
  \/ \E d \in TickSteps : Tick(d)
  \/ CleanupInvoked

EntrySpec == EntryInit /\ [][EntryNext]_vars

\* deliveries and /webhook-response requests with the outputs of InboundBodies
InboundNext ==
  \/ DeliveryNext
  \/ \E h \in Handlers, body \in InboundBodies : WebhookResponse(h, body)
  \/ \E h \in Handlers : RetryProcess(h)
  \/ \E h \in Handlers, ok \in BOOLEAN : SubmitSettles(h, ok)
  \/ \E h \in Handlers, result \in PollResults : PollSettles(h, result)
  \/ \E h \in Handlers, ok \in BOOLEAN : MessageSettles(h, ok)

InboundSpec == InboundInit /\ [][InboundNext]_vars

AskSpec == AskInit /\ [][AskNext]_vars

ProbeSpec == ProbeInit /\ [][ProbeNext]_vars
TruncationSpec == ProbeInit /\ [][TruncationNext]_vars

\* the steps of one /ask request after its arrival: a provider call, a send or
\* a timer of the request settles
TurnStep(a) ==
  \/ \E listed \in Listings : RunsListed(a, listed)
  \/ \E ok \in BOOLEAN : ThreadCreated(a, ok)
  \/ \E outcome \in AddMessageOutcomes : MessageAdded(a, outcome)
  \/ \E ok \in BOOLEAN : RunStarted(a, ok)
  \/ \E result \in PollResults : AskPollSettles(a, result)
  \/ \E ok \in BOOLEAN : MessageFetched(a, ok)
  \/ \E status \in HttpStatuses : WebhookSettles(a, status)
  \/ BackoffElapses(a)

\* the steps of one /webhook-response request after its arrival
HandlerStep(h) ==
  \/ RetryProcess(h)
  \/ \E ok \in BOOLEAN : SubmitSettles(h, ok)
  \/ \E result \in PollResults : PollSettles(h, result)
  \/ \E ok \in BOOLEAN : MessageSettles(h, ok)
  \/ \E status \in HttpStatuses : WebhookSettles(h, status)
  \/ BackoffElapses(h)

TerminationNext ==
  \/ \E c \in Askers, tcs \in ToolCallLists, e \in EmployeeIds : SendToolCalls(c, tcs, e)
  \/ \E a \in Askers, e \in AskEmployeeIds, t \in Threads \cup {""} : AskArrives(a, e, t)
  \/ \E h \in Handlers, body \in Bodies : WebhookResponse(h, body)
  \/ \E a \in Askers : TurnStep(a)
  \/ \E h \in Handlers : HandlerStep(h)

\* every provider call and every send returns or fails, and every timer of the
\* event loop fires: a request that waits for one is resumed
TerminationSpec ==
  /\ TerminationInit
  /\ [][TerminationNext]_vars
  /\ \A a \in Askers : WF_vars(TurnStep(a))
  /\ \A h \in Handlers : WF_vars(HandlerStep(h))

BusyNext ==
  \/ AskNext
  \/ \E c \in Askers, tcs \in ToolCallLists, e \in EmployeeIds : SendToolCalls(c, tcs, e)

BusySpec == BusyInit /\ [][BusyNext]_vars

ClientNext ==
  \/ \E e \in ClientEmployees : SwitchEmployee(e)
  \/ StartNewChat
  \/ SendMessage
  \/ \E ok \in BOOLEAN, answered \in BOOLEAN : AskAnswered(ok, answered)

ClientSpec == ClientInit /\ [][ClientNext]_vars

\* ------------------------------------------------------------- properties
\* a step in which request h calls processWebhookResponse: on arrival past the
\* middleware, or after a wait of the retry loop
ProcessAttempt(h) ==
  /\ handler[h].pc \in {"idle", "processWait"}
  /\ handler'[h] # handler[h]
  /\ handler'[h].outcome # "rejected"

\* the stored entry for the identifier of body has another thread or run
Mismatched(calls, body) ==
  /\ MapHas(calls, body.tool_call_id)
  /\ \/ calls[body.tool_call_id].threadId # body.thread_id
     \/ calls[body.tool_call_id].runId # body.run_id

\* the call of processWebhookResponse threw
AttemptFailed(h) ==
  /\ handler'[h].pc \in {"processWait", "done"}
  /\ handler'[h].error \in {"validation", "empty_output", "thread_mismatch", "run_mismatch"}
  /\ submitLog'[h] = submitLog[h]

\* C1: a call of processWebhookResponse with the identifier of a stored entry
\* and a thread_id or run_id that differs from the stored one throws, and the
\* store (key set and every entry) is the same afterwards as before
C1_CorrelationIntegrity ==
  [][\A h \in Handlers :
       ProcessAttempt(h) /\ Mismatched(pendingCalls, handler'[h].body)
         => AttemptFailed(h) /\ pendingCalls' = pendingCalls]_vars

C1_Witness ==
  \E h \in Handlers :
    /\ handler[h].error \in {"thread_mismatch", "run_mismatch"}
    /\ Mismatched(pendingCalls, handler[h].body)

\* requests whose processWebhookResponse call returned for identifier id
Processed(id) ==
  {h \in Handlers : handler[h].processedResponse.tool_call_id = id}

\* those of them that found (and deleted) the stored entry
Finders(id) == {h \in Processed(id) : handler[h].found}

\* C2: of the requests carrying the identifier of the one entry stored for it,
\* with the stored thread and run, at most one finds the entry; the call that
\* finds it deletes it in the same step, and a call that returns reports the
\* entry found exactly when the store held it, so the other request observes
\* no entry
C2_AtMostOnceCorrelation ==
  /\ [](\A id \in BodyIds :
          /\ Cardinality(Finders(id)) <= 1
          /\ Finders(id) # {} => ~MapHas(pendingCalls, id))
  /\ [][\A h \in Handlers :
          ProcessAttempt(h) /\ handler'[h].pc = "submitting"
            => /\ handler'[h].found = MapHas(pendingCalls, handler'[h].body.tool_call_id)
               /\ ~MapHas(pendingCalls', handler'[h].body.tool_call_id)
               /\ DOMAIN pendingCalls' =
                    DOMAIN pendingCalls \ {handler'[h].body.tool_call_id}]_vars

C2_Witness ==
  \E h1, h2 \in Handlers :
    /\ h1[2] < h2[2]
    /\ handler[h1].body = handler[h2].body
    /\ handler[h1].found /\ ~handler[h2].found
    /\ handler[h2].processedResponse.tool_call_id = handler[h1].body.tool_call_id
    /\ \E c \in Askers : \E k \in 1..Len(sendLog[c]) :
         sendLog[c][k].id = handler[h1].body.tool_call_id

\* the dispatches of identifier id: the first external send of each
FirstSends(id) ==
  {<<c, k>> \in Callers \X (1..(MaxToolCalls * (retryAttempts + 1))) :
     k <= Len(sendLog[c]) /\ sendLog[c][k].id = id /\ sendLog[c][k].attempt = 1}

\* requests that called submitToolOutputs with the output of identifier id
Submitters(id) ==
  {h \in Handlers : submitLog[h] > 0 /\ handler[h].body.tool_call_id = id}

\* C3: for an identifier dispatched once, submitToolOutputs is called for it
\* by at most one /webhook-response request, and by that request once
C3_SubmitAtMostOnce ==
  \A id \in BodyIds :
    Cardinality(FirstSends(id)) = 1
      => /\ Cardinality(Submitters(id)) <= 1
         /\ \A h \in Submitters(id) : submitLog[h] <= 1

\* C4: a request whose thread_id or run_id differed from the stored entry for
\* its identifier when it arrived never calls submitToolOutputs
C4_MismatchedNeverSubmits ==
  \A h \in Handlers :
    handler[h].firstError \in {"thread_mismatch", "run_mismatch"} => submitLog[h] = 0

\* the output field of the text result "ok", normalized
OkText == <<"o", "k">>

\* C5: a call of processWebhookResponse with a result that passes validation,
\* has a non-empty normalized output and names an identifier with no stored
\* entry returns: the normalized output, the inbound thread_id and run_id,
\* employee_id and employee_name 'unknown'; the store is unchanged
C5_DegradedMode ==
  [][\A h \in Handlers :
       LET b == handler'[h].body IN
       /\ ProcessAttempt(h)
       /\ ~MapHas(pendingCalls, b.tool_call_id)
       /\ b.output = JsString(OkText)
       => /\ handler'[h].pc = "submitting"
          /\ handler'[h].processedResponse =
               [tool_call_id |-> b.tool_call_id, output |-> OkText,
                thread_id |-> b.thread_id, run_id |-> b.run_id,
                employee_id |-> "unknown", employee_name |-> "unknown"]
          /\ ~handler'[h].found
          /\ pendingCalls' = pendingCalls]_vars

C5_Witness ==
  \E h \in Handlers :
    /\ handler[h].pc = "submitting"
    /\ ~handler[h].found
    /\ handler[h].processedResponse.employee_name = "unknown"
    /\ handler[h].processedResponse.thread_id = "thread_2"
    /\ pendingCalls # <<>>

\* C6: every first external send of a tool call is issued with an entry for
\* its identifier in the store: pending (no other status written), retryCount
\* 0, and the threadId, runId and employeeId given to sendToolCalls
C6_RecordBeforeDelivery ==
  \A c \in Callers : \A k \in 1..Len(sendLog[c]) :
    sendLog[c][k].attempt = 1
      => /\ sendLog[c][k].stored # {}
         /\ \A e \in sendLog[c][k].stored :
              /\ EffectiveStatus(e) = "pending"
              /\ e.retryCount = 0
              /\ e.threadId = dispatch[c].threadId
              /\ e.runId = dispatch[c].runId
              /\ e.employeeId = dispatch[c].employeeId

C6_Witness ==
  \E h \in Handlers : \E k \in 1..Len(sendLog[h]) :
    /\ sendLog[h][k].attempt = 1
    /\ \E e \in sendLog[h][k].stored : e.insertedBy = h /\ e.threadId = "thread_1"
    /\ \E c \in Askers : dispatch[c].pc = "backoff"

\* the identifier sendWebhookWithRetry of caller c is delivering
CurrentId(c) == dispatch[c].toolCalls[dispatch[c].i].id

\* the external sends caller c made for identifier id
SendsOf(c, id) == {k \in 1..Len(sendLog[c]) : sendLog[c][k].id = id}

\* the last attempt of the call caller c is delivering fails in this step: the
\* caller gets the terminal failure, an 'error' record
Exhausts(c) ==
  /\ dispatch[c].pc = "sending"
  /\ dispatch[c].attempt = retryAttempts
  /\ Len(dispatch'[c].results) > Len(dispatch[c].results)
  /\ dispatch'[c].results[Len(dispatch[c].results) + 1] = ErrorResult(CurrentId(c))

\* the entry of identifier id gets status 'failed' in this step
BecomesFailed(id) ==
  /\ MapHas(pendingCalls, id) /\ MapHas(pendingCalls', id)
  /\ pendingCalls[id].status # "failed"
  /\ pendingCalls'[id].status = "failed"

\* C7 as stated: when the last attempt fails the entry is in the store with
\* status 'failed', and 'failed' is only set on an entry whose own delivery
\* (the invocation that stored it) has made maxAttempts failed attempts
C7_AsStated ==
  [][/\ \A c \in Callers :
          Exhausts(c) => /\ MapHas(pendingCalls', CurrentId(c))
                         /\ pendingCalls'[CurrentId(c)].status = "failed"
     /\ \A id \in Ids :
          BecomesFailed(id)
            => LET c == pendingCalls[id].insertedBy IN
               /\ Exhausts(c)
               /\ CurrentId(c) = id
               /\ Cardinality(SendsOf(c, id)) = retryAttempts]_vars

\* C7: when the last attempt fails, the step removes no entry; the entry the
\* store then holds for the identifier, if any, has status 'failed'
\* afterwards, and the caller gets an 'error' record; 'failed' is set only in
\* the step in which some delivery of that identifier fails its maxAttempts-th
\* send
C7_ExhaustionMarksFailed ==
  [][/\ \A c \in Callers :
          Exhausts(c) => /\ DOMAIN pendingCalls \subseteq DOMAIN pendingCalls'
                         /\ MapHas(pendingCalls, CurrentId(c))
                              => pendingCalls'[CurrentId(c)].status = "failed"
     /\ \A id \in Ids :
          BecomesFailed(id)
            => \E c \in Callers :
                 /\ Exhausts(c)
                 /\ CurrentId(c) = id
                 /\ Cardinality(SendsOf(c, id)) = retryAttempts]_vars

C7_Witness ==
  \E c \in Callers : \E k \in 1..Len(dispatch[c].results) :
    LET id == dispatch[c].results[k].toolCallId IN
    /\ dispatch[c].pc = "returned"
    /\ dispatch[c].results[k].status = "error"
    /\ Cardinality(SendsOf(c, id)) = retryAttempts
    /\ MapHas(pendingCalls, id)
    /\ pendingCalls[id].status = "failed"
    /\ pendingCalls[id].insertedBy = c

\* steps sendToolCalls of caller c can still take: two per attempt left of the
\* current call and of every later call of the list
Remaining(d) ==
  IF d.pc \in {"sending", "backoff"}
  THEN (Len(d.toolCalls) - d.i) * 2 * retryAttempts
         + 2 * (retryAttempts - d.attempt)
         + (IF d.pc = "sending" THEN 1 ELSE 0)
  ELSE 0

\* C8: for one tool call sendWebhookWithRetry makes at most maxAttempts
\* sends, numbered 1..maxAttempts; a call that ends 'sent' at attempt n made
\* exactly n sends, none after the first status below 400; every step of a
\* delivery lowers a non-negative count of the steps it has left, and a
\* delivery that has not returned has a step to take
C8_BoundedDelivery ==
  /\ [](\A c \in Callers :
          /\ \A k \in 1..Len(sendLog[c]) : sendLog[c][k].attempt \in 1..retryAttempts
          /\ \A id \in Ids : Cardinality(SendsOf(c, id)) <= retryAttempts
          /\ \A k \in 1..Len(dispatch[c].results) :
               dispatch[c].results[k].status = "sent"
                 => Cardinality(SendsOf(c, dispatch[c].results[k].toolCallId))
                      = dispatch[c].results[k].attempt
          /\ dispatch[c].pc \in {"sending", "backoff"}
               => Cardinality(SendsOf(c, CurrentId(c))) = dispatch[c].attempt
          /\ dispatch[c].pc = "sending" => ENABLED WebhookSettles(c, 200)
          /\ dispatch[c].pc = "backoff" => ENABLED BackoffElapses(c))
  /\ [][\A c \in Callers :
          dispatch[c].pc \in {"sending", "backoff"} /\ dispatch'[c] # dispatch[c]
            => /\ Remaining(dispatch'[c]) < Remaining(dispatch[c])
               /\ Remaining(dispatch'[c]) >= 0
               /\ dispatch'[c].pc \in {"sending", "backoff", "returned"}]_vars

C8_Witness ==
  \E c \in Callers : \E k \in 1..Len(dispatch[c].results) :
    /\ dispatch[c].pc = "returned"
    /\ dispatch[c].results[k] = SentResult(dispatch[c].toolCalls[k].id, retryAttempts)
    /\ Cardinality(SendsOf(c, dispatch[c].toolCalls[k].id)) = retryAttempts

\* the delays of attempts 1..5
BackoffTable == <<2000, 4000, 8000, 10000, 10000>>

\* C9: the delay computed for attempt n is 2000, 4000, 8000, 10000, 10000 for
\* n = 1..5, and the wait after failed attempt n < maxAttempts is that value
C9_BackoffDeterminism ==
  /\ \A n \in 1..retryAttempts : BackoffDelay(n) = BackoffTable[n]
  /\ \A c \in Callers :
       dispatch[c].pc = "backoff"
         => /\ dispatch[c].attempt \in 1..(retryAttempts - 1)
            /\ dispatch[c].delay = BackoffTable[dispatch[c].attempt]

C9_Witness ==
  \E c \in Callers :
    /\ dispatch[c].pc = "backoff"
    /\ dispatch[c].attempt = retryAttempts - 1
    /\ dispatch[c].delay = maxRetryDelay

\* C10: when sendToolCalls returns, the result list has one record per tool
\* call of the list, in the order of the list; every call whose arguments
\* parse was sent at least once, every other call has an 'error' record
C10_FailureIsolation ==
  \A c \in Callers :
    dispatch[c].pc = "returned"
      => /\ Len(dispatch[c].results) = Len(dispatch[c].toolCalls)
         /\ \A k \in 1..Len(dispatch[c].toolCalls) :
              /\ k <= Len(dispatch[c].results)
              /\ dispatch[c].results[k].toolCallId = dispatch[c].toolCalls[k].id
              /\ dispatch[c].toolCalls[k].argsOk
                   => \E n \in SendsOf(c, dispatch[c].toolCalls[k].id) :
                        sendLog[c][n].attempt = 1
              /\ ~dispatch[c].toolCalls[k].argsOk
                   => dispatch[c].results[k].status = "error"

C10_Witness ==
  \E c \in Callers :
    /\ dispatch[c].pc = "returned"
    /\ Len(dispatch[c].toolCalls) = 2
    /\ dispatch[c].toolCalls[1].argsOk
    /\ dispatch[c].results[1].status = "error"
    /\ dispatch[c].results[2].status = "sent"

\* C11 as stated: sendToolCalls never raises an exception to its caller,
\* whatever the agent identity
C11_AsStated == \A c \in Callers : dispatch[c].pc # "threw"

\* C11: sendToolCalls raises an exception exactly when the agent identity has
\* no usable endpoint, and then before any call is handled; with a usable
\* endpoint every failure of a call is an 'error' record of the returned
\* list and every other record is 'sent'
C11_DispatchNeverThrows ==
  \A c \in Callers :
    /\ dispatch[c].pc = "threw"
         <=> dispatch[c].pc # "idle" /\ ~WebhookUrlResolves(dispatch[c].employeeId)
    /\ dispatch[c].pc = "threw" => dispatch[c].results = <<>> /\ sendLog[c] = <<>>
    /\ \A k \in 1..Len(dispatch[c].results) :
         dispatch[c].results[k].status \in {"sent", "error"}

C11_Witness ==
  \E c \in Callers :
    /\ dispatch[c].pc = "returned"
    /\ Len(dispatch[c].results) = 2
    /\ ~dispatch[c].toolCalls[1].argsOk
    /\ dispatch[c].results[1].status = "error"
    /\ dispatch[c].results[2].status = "error"
    /\ Cardinality(SendsOf(c, dispatch[c].toolCalls[2].id)) = retryAttempts

\* C12: a sendToolCalls call whose agent identity is not configured, or whose
\* webhook URL is a placeholder, throws in its first step: the store and the
\* sends made are the same after the call as before, and no result is built
C12_ConfigurationFailFast ==
  [][\A c \in Callers :
       /\ dispatch[c].pc = "idle"
       /\ dispatch'[c].pc # "idle"
       /\ ~WebhookUrlResolves(dispatch'[c].employeeId)
       => /\ dispatch'[c].pc = "threw"
          /\ dispatch'[c].results = <<>>
          /\ pendingCalls' = pendingCalls
          /\ sendLog' = sendLog]_vars

C12_Witness ==
  \E c \in Callers :
    /\ dispatch[c].pc = "threw"
    /\ dispatch[c].toolCalls # <<>>
    /\ pendingCalls # <<>>

\* a step in which cleanupPendingCalls runs on the store pendingCalls
CleanupStep == used'.sweeps = used.sweeps + 1

\* age of the entry of identifier id when the step is taken
Age(id) == now - pendingCalls[id].timestamp

\* C13: cleanupPendingCalls leaves in the store, unchanged, every entry that
\* is not 'failed' and is younger than 24 h (86,400,000 ms), whatever its
\* retryCount, and every 'failed' entry younger than 2 h (7,200,000 ms)
C13_SweepPreservesYoung ==
  [][CleanupStep =>
       \A id \in DOMAIN pendingCalls :
         \/ pendingCalls[id].status # "failed" /\ Age(id) < 86400000
         \/ pendingCalls[id].status = "failed" /\ Age(id) < 7200000
         => MapHas(pendingCalls', id) /\ pendingCalls'[id] = pendingCalls[id]]_vars

C13_Witness ==
  /\ used.sweeps > 0
  /\ \E id \in DOMAIN pendingCalls :
       /\ pendingCalls[id].status # "failed"
       /\ pendingCalls[id].retryCount = retryAttempts - 1
       /\ now - pendingCalls[id].timestamp > 7200000
       /\ now - pendingCalls[id].timestamp < 86400000
  /\ now > 86400000

\* C14: after cleanupPendingCalls the store holds exactly the entries it had
\* that are neither older than 24 h nor 'failed' and older than 2 h, each
\* unchanged
C14_SweepEvictionRule ==
  [][CleanupStep =>
       /\ DOMAIN pendingCalls' =
            {id \in DOMAIN pendingCalls :
               /\ ~(Age(id) > 86400000)
               /\ ~(pendingCalls[id].status = "failed" /\ Age(id) > 7200000)}
       /\ \A id \in DOMAIN pendingCalls' : pendingCalls'[id] = pendingCalls[id]]_vars

C14_Witness ==
  /\ used.sweeps > 0
  /\ \E c \in Callers :
       /\ Len(dispatch[c].results) = 2
       /\ dispatch[c].results[1].status = "error"
       /\ dispatch[c].toolCalls[1].argsOk
       /\ ~MapHas(pendingCalls, dispatch[c].toolCalls[1].id)
       /\ MapHas(pendingCalls, dispatch[c].toolCalls[2].id)
       /\ now - pendingCalls[dispatch[c].toolCalls[2].id].timestamp > 7200000
       /\ pendingCalls[dispatch[c].toolCalls[2].id].status # "failed"
       /\ now < 86400000

\* a step in which the cleanup timer of server.js fires
SweepTimerStep == used'.timers = used.timers + 1

\* C15: once the cleanup timer has fired, the store that sendToolCalls of the
\* routes writes to holds no entry older than 24 h
C15_StaleEvicted ==
  [][SweepTimerStep =>
       \A id \in DOMAIN pendingCalls' :
         now - pendingCalls'[id].timestamp <= 86400000]_vars

\* a step in which sendToolCalls of caller c stores an entry: the first send
\* of the call follows in the same step
Stores(c) ==
  /\ dispatch'[c].pc = "sending"
  /\ dispatch'[c].attempt = 1
  /\ Len(sendLog'[c]) = Len(sendLog[c]) + 1

\* C16: a lookup never yields more than one entry per identifier; a
\* sendToolCalls insert adds at most its own key, the number of entries does
\* not grow when the key was present, and the lookup that follows yields the
\* values of this insert: its threadId, runId, employeeId and retryCount 0
C16_Uniqueness ==
  /\ [](\A id \in Ids : Cardinality(MapGet(pendingCalls, id)) <= 1)
  /\ [][\A c \in Callers :
          Stores(c) =>
            LET id == dispatch'[c].toolCalls[dispatch'[c].i].id IN
            /\ DOMAIN pendingCalls' = DOMAIN pendingCalls \cup {id}
            /\ MapHas(pendingCalls, id)
                 => Cardinality(DOMAIN pendingCalls') = Cardinality(DOMAIN pendingCalls)
            /\ \A e \in MapGet(pendingCalls', id) :
                 /\ e.threadId = dispatch'[c].threadId
                 /\ e.runId = dispatch'[c].runId
                 /\ e.employeeId = dispatch'[c].employeeId
                 /\ e.retryCount = 0
            /\ MapGet(pendingCalls', id) # {}]_vars

C16_Witness ==
  \E c1, c2 \in Askers :
    /\ c1 # c2
    /\ dispatch[c1].pc = "backoff"
    /\ dispatch[c2].pc = "sending"
    /\ CurrentId(c1) = CurrentId(c2)
    /\ Cardinality(DOMAIN pendingCalls) = 2
    /\ pendingCalls[CurrentId(c1)].insertedBy = c2
    /\ pendingCalls[CurrentId(c1)].threadId = dispatch[c2].threadId
    /\ pendingCalls[CurrentId(c1)].retryCount = 0
    /\ dispatch[c1].threadId # dispatch[c2].threadId

\* request h correlates the stored entry of identifier id in this step: its
\* processWebhookResponse call returns, with the entry's thread and run
Correlates(h, id) ==
  /\ ProcessAttempt(h)
  /\ handler'[h].pc = "submitting"
  /\ handler'[h].found
  /\ handler'[h].body.tool_call_id = id
  /\ handler'[h].body.thread_id = pendingCalls[id].threadId
  /\ handler'[h].body.run_id = pendingCalls[id].runId

\* a step in which POST /debug/simulate-webhook hands its result to
\* processWebhookResponse
SimulateStep == used'.simulations = used.simulations + 1

\* C17: an identifier leaves the store only in a step in which
\* processWebhookResponse correlates it (called by a /webhook-response
\* request, or by /debug/simulate-webhook with the entry's own thread and
\* run), or in a cleanupPendingCalls run on that store that finds the entry
\* stale; a dispatch, a retry, a failed delivery, a rejected or mismatched
\* result, the clock and the cleanup timer of server.js remove nothing
C17_DeletionAuthority ==
  [][\A id \in DOMAIN pendingCalls :
       ~MapHas(pendingCalls', id)
         => \/ \E h \in Handlers : Correlates(h, id)
            \/ SimulateStep /\ DOMAIN pendingCalls' = DOMAIN pendingCalls \ {id}
            \/ CleanupStep /\ Swept(pendingCalls[id], now)]_vars

C17_Witness ==
  \E h \in Handlers :
    /\ handler[h].outcome = "error"
    /\ handler[h].error \in {"thread_mismatch", "run_mismatch"}
    /\ MapHas(pendingCalls, handler[h].body.tool_call_id)
    /\ pendingCalls[handler[h].body.tool_call_id].retryCount > 0
    /\ used.timers > 0
    /\ now - pendingCalls[handler[h].body.tool_call_id].timestamp > 86400000

\* the statuses of a run that has not ended
NonTerminal == {"queued", "in_progress", "requires_action"}

\* request a was started with an existing thread_id and its check saw run
\* status as the thread's latest run
SawLatestRun(a, statuses) ==
  /\ turn[a].thread_id # ""
  /\ turn[a].listed.kind = "run"
  /\ turn[a].listed.status \in statuses

\* C18 (busy detection): a turn started with an existing thread_id whose
\* latest run is queued, in_progress or requires_action, whether or not the
\* store holds pending calls of that run, is answered busy (409) and makes no
\* addMessage and no runAssistant call.
C18_BusyDetection ==
  \A a \in Askers :
    SawLatestRun(a, NonTerminal)
      => /\ turn[a].pc = "responded"
         /\ turn[a].status = 409
         /\ turn[a].addMessageCalls = 0
         /\ turn[a].runAssistantCalls = 0

\* request a is answered 'Thread busy with tool calls' in this step
RefusedForToolCalls(a) ==
  /\ turn[a].pc = "listing"
  /\ turn'[a].pc = "responded"
  /\ turn'[a].status = 409
  /\ turn'[a].listed.status = "requires_action"

\* the entries the store holds for a thread and a run
EntriesOf(threadId, runId) ==
  {id \in Ids : /\ MapHas(pendingCalls, id)
                /\ pendingCalls[id].threadId = threadId
                /\ pendingCalls[id].runId = runId}

\* C19 (busy count): when a turn is refused because the latest run of its
\* thread is in requires_action with pending calls outstanding, the
\* pending_tool_calls number of the busy report is the number of store entries
\* whose threadId and runId are that thread and that run, and it is not 0.
C19_BusyCount ==
  [][\A a \in Askers :
       RefusedForToolCalls(a)
         => LET n == Cardinality(EntriesOf(turn[a].thread_id, turn'[a].listed.id)) IN
            /\ turn'[a].pending_tool_calls = n
            /\ n > 0
            /\ turn'[a].runId = turn'[a].listed.id]_vars

\* a second turn on the thread of the first is refused while both tool calls
\* of the first are in the store
C19_Witness ==
  \E a \in Askers :
    /\ turn[a].status = 409
    /\ turn[a].listed.status = "requires_action"
    /\ turn[a].pending_tool_calls = 2
    /\ Cardinality(DOMAIN pendingCalls) = 2

\* the k-th addMessage call of request a failed with the error saying a run
\* is active on the thread
ActiveRunError(a, k) == turn[a].addMessageLog[k] = "active_run"

\* request a was answered with the error msg and never started a run
Surfaced(a, msg) ==
  /\ turn[a].pc = "responded"
  /\ turn[a].status = 500
  /\ turn[a].error = msg
  /\ turn[a].runAssistantCalls = 0

\* C20 (active-run error is not retried): when an addMessage call fails with
\* the provider error saying a run is active on the thread, it is the last
\* addMessage call of the turn, no run is started and the error is answered at
\* once; an addMessage call that fails otherwise is followed by another call
\* until messageRetries (3) calls have been made, and the third failure is
\* answered as an error.
C20_ActiveRunNotRetried ==
  \A a \in Askers :
    LET log == turn[a].addMessageLog IN
    /\ Len(log) <= turn[a].addMessageCalls
    /\ turn[a].addMessageCalls <= AskMessageRetries
    /\ \A k \in 1..Len(log) :
         /\ ActiveRunError(a, k)
              => /\ k = Len(log)
                 /\ turn[a].addMessageCalls = k
                 /\ Surfaced(a, "Cannot add message while processing")
         /\ log[k] = "other" /\ k < AskMessageRetries
              => turn[a].addMessageCalls > k
         /\ log[k] = "other" /\ k = AskMessageRetries
              => Surfaced(a, "add_message_failed")

\* an addMessage call fails for another reason and is made again, and the
\* second call fails with the active-run error
C20_Witness ==
  \E a \in Askers :
    /\ turn[a].addMessageLog = <<"other", "active_run">>
    /\ turn[a].pc = "responded"

\* the poll of request a returned requires_action and the employee of the
\* request has no usable webhookUrl
PausedWithoutEndpoint(a) ==
  /\ turn[a].polled = "requires_action"
  /\ ~WebhookUrlResolves(turn[a].employee)

\* the entries request a stored
StoredBy(a) == {id \in DOMAIN pendingCalls : pendingCalls[id].insertedBy = a}

Reached(c, k) ==
  \/ dispatch[c].pc \in {"returned", "threw"}
  \/ k < dispatch[c].i
  \/ k = dispatch[c].i /\ dispatch[c].pc \in {"sending", "backoff"}

\* caller c has sent tool call id while the store held an entry for it with
\* the thread and run given
DeliveredFor(c, id, threadId, runId) ==
  \E n \in 1..Len(sendLog[c]) :
    /\ sendLog[c][n].id = id
    /\ \E e \in sendLog[c][n].stored :
         /\ e.threadId = threadId
         /\ e.runId = runId
         /\ WebhookUrlResolves(e.employeeId)

\* C22 (recursive resumption): whenever the run resumed by /webhook-response
\* pauses again in requires_action, whether or not an entry was found for the
\* result, every newly requested tool call (whose arguments parse) gets an
\* entry with the thread and run of the run and is sent to the endpoint of
\* the employee that owns the run, as soon as the loop reaches it.
C22_RecursiveResumption ==
  \A h \in Handlers :
    dispatch[h].pc # "idle"
      => \A k \in 1..Len(dispatch[h].toolCalls) :
           Reached(h, k) /\ dispatch[h].toolCalls[k].argsOk
             => DeliveredFor(h, dispatch[h].toolCalls[k].id,
                             handler[h].processedResponse.thread_id,
                             handler[h].processedResponse.run_id)

\* request a named no thread_id and its run has not paused for tool calls
FreshWithoutTools(a) ==
  /\ turn[a].pc # "idle"
  /\ turn[a].thread_id = ""
  /\ turn[a].polled # "requires_action"

\* C23 (end to end without tools): a turn on a fresh thread whose run completes
\* without tool calls has created the thread, appended the message, started
\* the run and polled it when it answers 'completed'; once the poll has
\* returned 'completed' the only other outcome is the error of a message fetch
\* that failed on every attempt; and the turn never calls sendToolCalls nor
\* touches the store: the store that was empty stays empty.
C23_EndToEndWithoutTools ==
  \A a \in Askers :
    FreshWithoutTools(a)
      => /\ turn[a].sendToolCallsCalls = 0
         /\ dispatch[a].pc = "idle"
         /\ pendingCalls = <<>>
         /\ turn[a].polled = "completed"
              => /\ turn[a].threadId = ThreadOf(a)
                 /\ turn[a].addMessageLog # <<>>
                 /\ turn[a].addMessageLog[Len(turn[a].addMessageLog)] = "ok"
                 /\ turn[a].runAssistantCalls \in 1..AskRunRetries
                 /\ turn[a].runId = RunOf(a)
                 /\ turn[a].pc \in {"gettingMessage", "responded"}
                 /\ turn[a].pc = "responded"
                      => \/ turn[a].status = 200 /\ turn[a].outcome = "completed"
                         \/ turn[a].status = 500 /\ turn[a].error = "get_message_failed"
         /\ turn[a].outcome = "completed" => turn[a].polled = "completed"

\* a turn on a fresh thread is answered 'completed' although one of its
\* provider calls failed and was made again
C23_Witness ==
  \E a \in Askers :
    /\ FreshWithoutTools(a)
    /\ turn[a].outcome = "completed"
    /\ turn[a].status = 200
    /\ used.providerFailures = 1
    /\ pendingCalls = <<>>

\* the first /ask turn, and whether its run requested exactly one tool call
\* (with arguments that parse, for an employee whose endpoint resolves)
FirstTurn == <<"ask", 1>>
OneToolCall ==
  /\ dispatch[FirstTurn].pc \notin {"idle", "threw"}
  /\ Len(dispatch[FirstTurn].toolCalls) = 1
  /\ dispatch[FirstTurn].toolCalls[1].argsOk

\* C24 (end to end with one tool call): when a run requests one tool call,
\* until a result is correlated the store holds exactly one entry, for that
\* call, in pending status with the thread and run of the turn; when delivery
\* failed once and succeeded on attempt 2 the dispatch result is 'sent' with
\* attempt 2 and the entry, while stored, is pending with retryCount 1; once a
\* result with the same identifier, thread and run has been correlated the
\* store has 0 entries, submitToolOutputs has been called, and the request is
\* answered with the status the resumed run was polled to.
C24_EndToEndOneToolCall ==
  OneToolCall =>
    LET d == dispatch[FirstTurn]
        id == d.toolCalls[1].id
    IN /\ Finders(id) = {}
            => /\ DOMAIN pendingCalls = {id}
               /\ EffectiveStatus(pendingCalls[id]) = "pending"
               /\ pendingCalls[id].threadId = d.threadId
               /\ pendingCalls[id].runId = d.runId
       /\ d.pc = "returned" /\ Len(sendLog[FirstTurn]) = 2
            => /\ d.results = <<SentResult(id, 2)>>
               /\ MapHas(pendingCalls, id)
                    => /\ pendingCalls[id].retryCount = 1
                       /\ EffectiveStatus(pendingCalls[id]) = "pending"
       /\ \A h \in Finders(id) :
            /\ pendingCalls = <<>>
            /\ handler[h].body.thread_id = d.threadId
            /\ handler[h].body.run_id = d.runId
            /\ submitLog[h] >= 1
            /\ handler[h].pc = "done"
                 => /\ handler[h].error = ""
                    /\ handler[h].outcome \in {"completed", "failed", "requires_action"}

\* the one tool call is delivered on attempt 2, its result arrives afterwards
\* and the resumed run is polled to 'completed'
C24_Witness ==
  /\ OneToolCall
  /\ dispatch[FirstTurn].pc = "returned"
  /\ dispatch[FirstTurn].results = <<SentResult(dispatch[FirstTurn].toolCalls[1].id, 2)>>
  /\ pendingCalls = <<>>
  /\ \E h \in Finders(dispatch[FirstTurn].toolCalls[1].id) :
       /\ handler[h].pc = "done"
       /\ handler[h].outcome = "completed"
       /\ sendLog[FirstTurn][2].stored # {}

\* processWebhookResponse is called directly in this step
ProbeStep == used'.probes = used.probes + 1

\* a value that is no non-empty string
NotAnId(v) == v.t # "string" \/ v.s = <<>>

\* the fields of a result that are missing or of the wrong type
Offending(raw) ==
  {f \in {"tool_call_id", "thread_id", "run_id"} : NotAnId(raw[f])}
    \cup {f \in {"output"} : raw[f] \in {JsUndefined, JsNull}}

\* the elements of a sequence
Range(seq) == {seq[k] : k \in 1..Len(seq)}

\* C25 (validation accumulates and does not mutate): processWebhookResponse
\* given a result in which any of tool_call_id, output, thread_id, run_id is
\* missing or of the wrong type fails with one validation error that names
\* every offending field, each once, and leaves the store as it was.
C25_ValidationAccumulates ==
  [][ProbeStep /\ Offending(probe'.raw) # {}
       => /\ ~probe'.ok
          /\ probe'.error = "validation"
          /\ Range(probe'.named) = Offending(probe'.raw)
          /\ Len(probe'.named) = Cardinality(Offending(probe'.raw))
          /\ pendingCalls' = pendingCalls]_vars

\* a result with three offending fields is rejected while the store holds an
\* entry
C25_Witness ==
  /\ probe.error = "validation"
  /\ Len(probe.named) = 3
  /\ probe.raw.output = JsNull
  /\ pendingCalls # <<>>

\* the output text before the size check
NormalizedText(raw) == OutputText(raw.output)

\* the same result carrying text as its output
Renormalized(raw, text) == [raw EXCEPT !.output = JsString(text)]

\* C26 (truncation): a normalized output longer than 100,000 characters is
\* returned as exactly its first 100,000 characters followed by the truncation
\* marker; one of length at or below 100,000 is returned unchanged, and
\* normalizing the returned text again yields the same text.
C26_Truncation ==
  [][ProbeStep /\ probe'.ok
       => LET text == NormalizedText(probe'.raw)
              returned == probe'.response.output
          IN IF Len(text) > OutputLimit
             THEN /\ Len(returned) = OutputLimit + Len(TruncationMarker)
                  /\ SubSeq(returned, 1, OutputLimit) = SubSeq(text, 1, OutputLimit)
                  /\ SubSeq(returned, OutputLimit + 1, Len(returned)) = TruncationMarker
             ELSE /\ returned = text
                  /\ ProcessRawResponse(pendingCalls',
                                        Renormalized(probe'.raw, returned)).out.response.output
                       = returned]_vars

\* a string of 100,001 characters was returned cut to 100,000 and the marker
C26_Witness ==
  /\ probe.ok
  /\ probe.raw.output = JsString(LongText(OutputLimit + 1))
  /\ Len(probe.response.output) = OutputLimit + 1
  /\ probe.response.output[OutputLimit + 1] = TruncationMarker[1]

\* a string of exactly 100,000 characters between two spaces was returned
\* without the spaces and without the marker
C26_WitnessAtLimit ==
  /\ probe.ok
  /\ Len(probe.raw.output.s) = OutputLimit + 2
  /\ probe.response.output = LongText(OutputLimit)

\* a report names its kind and says what happened
Traceable(report) == report.sent /\ report.error # "" /\ report.details # ""

\* /webhook-response requests that ended in the route's catch block
FailedHandlers == {h \in Handlers : handler[h].pc = "done" /\ handler[h].outcome = "error"}

\* /ask requests answered with an error status
FailedTurns == {a \in Askers : turn[a].pc = "responded" /\ turn[a].status >= 400}

\* C27 (traceable errors): every error outcome that /ask or /webhook-response
\* reports to the external caller carries an error kind, a detail and the
\* thread, run and call identifiers available at the point of failure; a result
\* rejected for thread or run mismatch is reported as a correlation error
\* together with the tool_call_id, thread_id and run_id of the inbound result.
C27_TraceableErrors ==
  /\ \A h \in FailedHandlers :
       LET report == WebhookReport(handler[h]) IN
         /\ Traceable(report)
         /\ IncludesMismatch(handler[h].error)
              => /\ report.error = "Request correlation error"
                 /\ report.context.tool_call_id = handler[h].body.tool_call_id
                 /\ report.context.thread_id = handler[h].body.thread_id
                 /\ report.context.run_id = handler[h].body.run_id
  /\ \A a \in FailedTurns :
       LET report == AskReport(turn[a]) IN
         /\ Traceable(report)
         /\ report.context.thread_id = turn[a].threadId
         /\ report.context.run_id = turn[a].runId

\* the calls and delivery attempts made for the requests so far stay within
\* the budgets of the retry loops
BoundedCalls ==
  /\ \A a \in Askers :
       /\ turn[a].addMessageCalls <= AskMessageRetries
       /\ turn[a].runAssistantCalls <= AskRunRetries
       /\ turn[a].sendToolCallsCalls <= AskWebhookRetries
  /\ \A h \in Handlers : submitLog[h] <= SubmitRetries
  /\ \A c \in Callers : Len(sendLog[c]) <= retryAttempts * Len(dispatch[c].toolCalls)

\* a request that was answered stays answered, with the outcome it has
AnsweredOnce ==
  /\ \A a \in Askers : turn[a].pc = "responded" => turn'[a] = turn[a]
  /\ \A h \in Handlers : handler[h].pc = "done" => handler'[h] = handler[h]

\* C28 (no indefinite hang): every /ask turn and every /webhook-response
\* handling ends with exactly one outcome after a bounded number of provider
\* calls and delivery attempts, provided each provider call and each send
\* returns or fails.
C28_NoIndefiniteHang ==
  /\ \A a \in Askers : (turn[a].pc # "idle") ~> (turn[a].pc = "responded")
  /\ \A h \in Handlers : (handler[h].pc # "idle") ~> (handler[h].pc = "done")
  /\ []BoundedCalls
  /\ [][AnsweredOnce]_vars

\* an /ask turn ended in an error after its last addMessage attempt failed
C28_Witness ==
  \E a \in Askers :
    /\ turn[a].pc = "responded"
    /\ turn[a].error = "add_message_failed"
    /\ turn[a].addMessageCalls = AskMessageRetries

\* a /webhook-response request ended in an error after its last
\* submitToolOutputs attempt failed
C28_WitnessSubmit ==
  \E h \in Handlers :
    /\ handler[h].pc = "done"
    /\ handler[h].error = "submit_failed"
    /\ submitLog[h] = SubmitRetries

\* no entry of the store is marked processed
NoProcessedEntry ==
  \A id \in DOMAIN pendingCalls : pendingCalls[id].status # "processed"

\* the step in which a request's processWebhookResponse call finds its entry
FindsEntry(h) == ~handler[h].found /\ handler'[h].found

\* C29 (no processed entry is observable): in every state another operation
\* can see, no entry of the store has status 'processed'; the step that marks
\* an entry processed also removes it, so the state that follows the
\* correlation no longer holds the entry.
C29_NoProcessedEntry ==
  /\ []NoProcessedEntry
  /\ [][\A h \in Handlers :
          FindsEntry(h)
            => /\ handler'[h].body.tool_call_id \in DOMAIN pendingCalls
               /\ handler'[h].body.tool_call_id \notin DOMAIN pendingCalls']_vars

\* a request has found its entry and waits for submitToolOutputs, while the
\* delivery of the same tool call is still being retried
C29_Witness ==
  \E h \in Handlers, c \in Callers :
    /\ handler[h].pc = "submitting"
    /\ handler[h].found
    /\ handler[h].body.tool_call_id \notin DOMAIN pendingCalls
    /\ dispatch[c].pc \in {"sending", "backoff"}
    /\ \E k \in 1..Len(dispatch[c].toolCalls) :
         dispatch[c].toolCalls[k].id = handler[h].body.tool_call_id

\* caller c is delivering identifier id and the store holds the entry c stored
Delivering(c, id) ==
  /\ dispatch[c].pc \in {"sending", "backoff"}
  /\ CurrentId(c) = id
  /\ MapHas(pendingCalls, id)
  /\ pendingCalls[id].insertedBy = c

\* another invocation is delivering id, or has sent id since c stored its entry
Overlapped(c, id) ==
  \E c2 \in Callers \ {c} :
    \/ dispatch[c2].pc \in {"sending", "backoff"} /\ CurrentId(c2) = id
    \/ \E k \in SendsOf(c2, id) : \E e \in sendLog[c2][k].stored : e.insertedBy = c

\* the failed attempts of c for id that were followed by a retry: every send
\* but the one in flight
RetriedAttempts(c, id) ==
  IF dispatch[c].pc = "backoff" THEN Cardinality(SendsOf(c, id))
  ELSE Cardinality(SendsOf(c, id)) - 1

\* the store before and after a step holds the entry c stored for id, and c
\* is delivering id
StillDelivering(c, id) ==
  /\ Delivering(c, id)
  /\ dispatch'[c].pc \in {"sending", "backoff"}
  /\ dispatch'[c].i = dispatch[c].i
  /\ MapHas(pendingCalls', id)
  /\ pendingCalls'[id].insertedBy = c

\* no other invocation is delivering id at this moment
AloneNow(c, id) ==
  \A c2 \in Callers \ {c} :
    ~(dispatch[c2].pc \in {"sending", "backoff"} /\ CurrentId(c2) = id)

\* C30 as stated: the count equals the retried attempts whenever one dispatch
\* of the identifier is in progress, and never decreases during a dispatch
C30_AsStated ==
  /\ [](\A id \in DOMAIN pendingCalls :
          /\ pendingCalls[id].retryCount >= 0
          /\ pendingCalls[id].retryCount <= retryAttempts - 1)
  /\ [](\A c \in Callers, id \in Ids :
          Delivering(c, id) /\ AloneNow(c, id)
            => pendingCalls[id].retryCount = RetriedAttempts(c, id))
  /\ [][\A c \in Callers, id \in Ids :
          StillDelivering(c, id)
            => pendingCalls'[id].retryCount >= pendingCalls[id].retryCount]_vars

\* C30 (retryCount invariant): every entry of the store has
\* 0 <= retryCount <= maxAttempts - 1; while the dispatch that stored the entry
\* is in progress and no other dispatch of the identifier is in progress or has
\* made a delivery attempt since the entry was stored, retryCount is the number
\* of failed delivery attempts that were followed by a retry, and it does not
\* decrease.
C30_RetryCount ==
  /\ [](\A id \in DOMAIN pendingCalls :
          /\ pendingCalls[id].retryCount >= 0
          /\ pendingCalls[id].retryCount <= retryAttempts - 1)
  /\ [](\A c \in Callers, id \in Ids :
          Delivering(c, id) /\ ~Overlapped(c, id)
            => pendingCalls[id].retryCount = RetriedAttempts(c, id))
  /\ [][\A c \in Callers, id \in Ids :
          StillDelivering(c, id) /\ ~Overlapped(c, id)
            => pendingCalls'[id].retryCount >= pendingCalls[id].retryCount]_vars

\* the last attempt of a delivery is in flight: four attempts failed and were
\* retried, and the entry says so
C30_Witness ==
  \E c \in Callers, id \in Ids :
    /\ Delivering(c, id)
    /\ ~Overlapped(c, id)
    /\ dispatch[c].pc = "sending"
    /\ Cardinality(SendsOf(c, id)) = retryAttempts
    /\ pendingCalls[id].retryCount = retryAttempts - 1

\* the store holds before and after the step the entry the same invocation
\* stored for id
SameEntry(id) ==
  /\ MapHas(pendingCalls, id)
  /\ MapHas(pendingCalls', id)
  /\ pendingCalls'[id].insertedBy = pendingCalls[id].insertedBy

StageOf(pc) ==
  CASE pc = "idle" -> 0
    [] pc \in {"listing", "creatingThread"} -> 1
    [] pc = "addingMessage" -> 2
    [] pc = "startingRun" -> 3
    [] pc = "polling" -> 4
    [] pc \in {"gettingMessage", "dispatching"} -> 5
    [] pc = "responded" -> 6

\* what each provider operation of a turn finds done when it is under way
TurnPreconditions(st) ==
  /\ st.pc = "addingMessage" => st.threadId # ""
  /\ st.pc = "startingRun"
       => /\ st.threadId # ""
          /\ st.addMessageLog # <<>>
          /\ st.addMessageLog[Len(st.addMessageLog)] = "ok"
  /\ st.runAssistantCalls > 0
       => st.addMessageLog # <<>> /\ st.addMessageLog[Len(st.addMessageLog)] = "ok"
  /\ st.pc = "polling" => st.runId # "" /\ st.runAssistantCalls > 0
  /\ st.polled # "" => st.runId # "" /\ st.runAssistantCalls > 0
  /\ st.pc = "gettingMessage" => st.polled = "completed"
  /\ st.pc = "dispatching" => st.polled = "requires_action"
  /\ st.sendToolCallsCalls > 0 => st.polled = "requires_action"
  /\ st.outcome = "completed" => st.polled = "completed"

\* C32 (turn state machine order): within one /ask turn the provider
\* operations occur only in the order thread ready, message appended, run
\* started, polling, branch: a message is appended only once a thread id is
\* known, a run is started only after the append succeeded, polling begins
\* only after the run start succeeded, and dispatch or the fetch of the final
\* message only after polling returned requires_action or completed.
C32_TurnOrder ==
  /\ [](\A a \in Askers : TurnPreconditions(turn[a]))
  /\ [][\A a \in Askers :
          /\ StageOf(turn'[a].pc) >= StageOf(turn[a].pc)
          /\ turn'[a].pc = "polling" => turn[a].pc \in {"startingRun", "polling"}
          /\ turn'[a].pc = "startingRun" => turn[a].pc \in {"addingMessage", "startingRun"}
          /\ turn'[a].pc \in {"gettingMessage", "dispatching"}
               => turn[a].pc \in {"polling", "gettingMessage", "dispatching"}]_vars

\* a turn on a reused thread delivers its tool calls: the runs were listed, a
\* failed addMessage was repeated, the run started and polling returned
\* requires_action
C32_Witness ==
  \E a \in Askers :
    /\ turn[a].pc = "dispatching"
    /\ turn[a].thread_id # ""
    /\ turn[a].listed.kind = "run"
    /\ turn[a].addMessageLog = <<"other", "ok">>
    /\ turn[a].polled = "requires_action"

\* the number of the attempt an /ask request is making in the retry loop it
\* is in; 0 outside the loops around provider calls
TurnAttempt(st) ==
  CASE st.pc = "creatingThread" -> AskThreadRetries - st.retries + 1
    [] st.pc = "addingMessage" -> AskMessageRetries - st.retries + 1
    [] st.pc = "startingRun" -> AskRunRetries - st.retries + 1
    [] st.pc = "polling" -> AskPollRetries - st.retries + 1
    [] st.pc = "gettingMessage" -> AskMessageGetRetries - st.retries + 1
    [] OTHER -> 0

\* the same for a /webhook-response request: the loops around pollRunStatus
\* and getLatestAssistantMessage
HandlerAttempt(st) ==
  CASE st.pc = "polling" -> FinalPollRetries - st.finalPollRetries + 1
    [] st.pc = "fetching" -> MessageRetries - st.messageRetries + 1
    [] OTHER -> 0

\* C33 (provider retry budget): every retry loop around a provider call
\* (create thread, append message, start run, poll, fetch latest message), in
\* /ask and in /webhook-response, makes fewer attempts than the maxAttempts
\* (5) of the delivery: no request is ever at attempt 5 of such a loop.
C33_ProviderRetryBudget ==
  /\ \A a \in Askers : TurnAttempt(turn[a]) < retryAttempts
  /\ \A h \in Handlers : HandlerAttempt(handler[h]) < retryAttempts

\* the requests that have been answered or have got past processWebhookResponse
Handled == {h \in Handlers : handler[h].pc \notin {"idle", "processWait"}}

\* the line-by-line text of {"a": 1, "b": ["x", null]} with two spaces of
\* indentation per level
PrettyExample ==
  <<"{", "\n",
    " ", " ", "\"", "a", "\"", ":", " ", "1", ",", "\n",
    " ", " ", "\"", "b", "\"", ":", " ", "[", "\n",
    " ", " ", " ", " ", "\"", "x", "\"", ",", "\n",
    " ", " ", " ", " ", "n", "u", "l", "l", "\n",
    " ", " ", "]", "\n",
    "}">>

\* what the normalization of a non-null output is to be
Normalized(output) ==
  CASE output.t = "string" -> Trim(output.s)
    [] output.t \in {"number", "boolean"} -> output.s
    [] output = JsRecord(<<>>) -> <<"{", "}">>
    [] output = JsArray(<<>>) -> <<"[", "]">>
    [] OTHER -> PrettyExample

\* C34 (output normalization at the inbound interface): a result delivered
\* through /webhook-response with valid identifiers and a non-null output is
\* accepted and normalized: an object or array becomes its pretty-printed
\* JSON, a string its trimmed value, a number or boolean (0 and false too)
\* its string form.
C34_InboundNormalization ==
  \A h \in Handled :
    handler[h].body.output # JsNull
      => /\ handler[h].outcome # "rejected"
         /\ handler[h].firstError = ""
         /\ handler[h].processedResponse.output = Normalized(handler[h].body.output)

\* the last processWebhookResponse call was given identifiers that pass the
\* validation and an output that is empty after normalization
EmptyOutputGiven(p) ==
  /\ RawValidationErrors(p.raw) = <<>>
  /\ OutputEmpty(p.raw.output)

\* the store holds an entry under the identifier, thread and run of the result
MatchingEntry(calls, raw) ==
  \E e \in MapGet(calls, IdText(raw.tool_call_id)) :
    e.threadId = IdText(raw.thread_id) /\ e.runId = IdText(raw.run_id)

\* C35 (empty output is a processing error before any lookup):
\* processWebhookResponse given an output that is empty after normalization
\* throws the empty-output error and leaves the store as it was, also when an
\* entry with the same identifier, thread and run is stored.
C35_EmptyOutputBeforeLookup ==
  [][(used'.probes > used.probes /\ EmptyOutputGiven(probe'))
       => /\ ~probe'.ok
          /\ probe'.error = "empty_output"
          /\ ~probe'.found
          /\ pendingCalls' = pendingCalls]_vars

\* a whitespace-only output was given while the matching entry was stored
C35_Witness ==
  /\ used.probes > 0
  /\ EmptyOutputGiven(probe)
  /\ probe.raw.output = JsString(<<" ">>)
  /\ MatchingEntry(pendingCalls, probe.raw)

\* the 'error' result records of the sendToolCalls call of caller c
ErrorResults(c) ==
  {k \in 1..Len(dispatch[c].results) : dispatch[c].results[k].status = "error"}

\* C36 (error results keep their record): whenever sendToolCalls has an
\* 'error' result record for a tool call, the store holds a PendingCall entry
\* for that identifier, whatever the cause of the error; checked where no
\* correlation and no sweep can have removed it.
C36_ErrorKeepsRecord ==
  \A c \in Callers : \A k \in ErrorResults(c) :
    MapHas(pendingCalls, dispatch[c].results[k].toolCallId)

\* an attempt of the delivery caller c is making fails in this step: the catch
\* block of sendWebhookWithRetry does its retry or final-failure bookkeeping
AttemptFails(c) ==
  /\ dispatch[c].pc = "sending"
  /\ dispatch'[c] # dispatch[c]
  /\ used'.failures = used.failures + 1

\* the identifier the loop of caller c stores next in this step, if any
StoredNext(c) ==
  IF dispatch'[c].pc = "sending" /\ dispatch'[c].i > dispatch[c].i
  THEN {dispatch'[c].toolCalls[dispatch'[c].i].id} ELSE {}

\* C37 (a delivery retry never resurrects an entry): when an attempt of a
\* delivery fails after the entry of its tool call was deleted, the retry
\* bookkeeping and the final-failure bookkeeping do not put an entry back
\* under that identifier, and they change no entry under another identifier.
C37_NoResurrection ==
  [][\A c \in Callers :
       AttemptFails(c) =>
         /\ ~MapHas(pendingCalls, CurrentId(c)) => ~MapHas(pendingCalls', CurrentId(c))
         /\ \A x \in DOMAIN pendingCalls \ ({CurrentId(c)} \cup StoredNext(c)) :
              MapHas(pendingCalls', x) /\ pendingCalls'[x] = pendingCalls[x]]_vars

\* a delivery whose entry was correlated away before its second attempt has
\* failed up to its last attempt: every bookkeeping since found no entry
C37_Witness ==
  \E c \in Askers, h \in Handlers :
    /\ dispatch[c].pc = "returned"
    /\ dispatch[c].results # <<>>
    /\ dispatch[c].results[1].status = "error"
    /\ handler[h].found
    /\ handler[h].body.tool_call_id = dispatch[c].results[1].toolCallId
    /\ \A k \in SendsOf(c, dispatch[c].results[1].toolCallId) :
         sendLog[c][k].attempt >= 2 => sendLog[c][k].stored = {}
    /\ ~MapHas(pendingCalls, dispatch[c].results[1].toolCallId)

\* a retry bookkeeping found no entry: the delivery waits for its next attempt
C37_WitnessRetry ==
  \E c \in Askers, h \in Handlers :
    /\ dispatch[c].pc = "backoff"
    /\ dispatch[c].attempt >= 2
    /\ handler[h].found
    /\ handler[h].body.tool_call_id = CurrentId(c)
    /\ sendLog[c][Len(sendLog[c])].stored = {}
    /\ ~MapHas(pendingCalls, CurrentId(c))

\* request h matched a stored entry and has called submitToolOutputs; the
\* call has not returned yet, or has failed for the last time
SubmitPending(h) ==
  /\ handler[h].found
  /\ \/ handler[h].pc = "submitting"
     \/ handler[h].pc = "done" /\ handler[h].error = "submit_failed"

\* C38 (delete precedes resume): in /webhook-response the matching entry is
\* out of the store when submitToolOutputs is first called, it is not put
\* back while the call is retried, and after the last failed call the store
\* holds no entry for that identifier.
C38_DeletePrecedesResume ==
  \A h \in Handlers :
    SubmitPending(h)
      => /\ submitLog[h] >= 1
         /\ ~MapHas(pendingCalls, handler[h].body.tool_call_id)

\* submitToolOutputs failed five times for a result that matched an entry
C38_Witness ==
  \E h \in Handlers :
    /\ handler[h].found
    /\ handler[h].pc = "done"
    /\ handler[h].outcome = "error"
    /\ handler[h].error = "submit_failed"
    /\ submitLog[h] = SubmitRetries
    /\ ~MapHas(pendingCalls, handler[h].body.tool_call_id)

\* the identifiers of the tool calls after the one caller c is delivering
LaterIds(c) ==
  {dispatch[c].toolCalls[j].id : j \in (dispatch[c].i + 1)..Len(dispatch[c].toolCalls)}

\* every call before the one caller c is delivering has its result record,
\* 'sent' or 'error', in list order
EarlierEnded(c) ==
  /\ Len(dispatch[c].results) = dispatch[c].i - 1
  /\ \A k \in 1..Len(dispatch[c].results) :
       /\ dispatch[c].results[k].toolCallId = dispatch[c].toolCalls[k].id
       /\ dispatch[c].results[k].status \in {"sent", "error"}

\* C39 (sequential dispatch): within one sendToolCalls call the tool calls are
\* handled one after another in list order: while call k is being sent or
\* retried every earlier call has ended in 'sent' or in an error, and no
\* later call has an entry in the store or a send made.
C39_SequentialDispatch ==
  \A c \in Callers :
    dispatch[c].pc \in {"sending", "backoff"}
      => /\ EarlierEnded(c)
         /\ MapHas(pendingCalls, CurrentId(c))
         /\ \A id \in LaterIds(c) : ~MapHas(pendingCalls, id) /\ SendsOf(c, id) = {}
         /\ \A k \in 1..Len(sendLog[c]) :
              \E j \in 1..dispatch[c].i : sendLog[c][k].id = dispatch[c].toolCalls[j].id

\* the first of two calls is being retried and the second is not yet stored
C39_Witness ==
  \E c \in Callers :
    /\ dispatch[c].pc = "backoff"
    /\ dispatch[c].i = 1
    /\ Len(dispatch[c].toolCalls) = 2
    /\ dispatch[c].toolCalls[2].argsOk
    /\ ~MapHas(pendingCalls, dispatch[c].toolCalls[2].id)

\* the second call is being sent after the first ended in an error
C39_WitnessSecond ==
  \E c \in Callers :
    /\ dispatch[c].pc = "sending"
    /\ dispatch[c].i = 2
    /\ dispatch[c].results[1].status = "error"
    /\ dispatch[c].toolCalls[1].argsOk
    /\ MapHas(pendingCalls, dispatch[c].toolCalls[2].id)

\* the thread stored in the history of employee e, "" when there is none
StoredThread(history, e) == IF MapHas(history, e) THEN history[e].threadId ELSE ""

\* this step is a switchEmployee call
Switches == client' # client /\ client'.lastOp = "switch"

\* a body posted to /api/ask names no thread, or a thread that was created
\* for the employee it names
OwnThread(body) ==
  body.thread_id = "" \/ client.owner[body.thread_id] = body.employee

\* C40 (chat client thread isolation): after switchEmployee(e) the current
\* thread id is the one stored in e's conversation history, or null when e
\* has no history, and no message posted to /api/ask with employee e carries
\* a thread_id of a conversation with a different employee.
C40_ThreadIsolation ==
  /\ [][Switches => client'.currentThreadId
                      = StoredThread(client.conversationHistory, client'.currentEmployee)]_vars
  /\ [](\A body \in client.sent : OwnThread(body))

====
